---- MODULE Spec2Model ----
(***************************************************************************)
(* Signal pipeline of bot-engine: the Redis-backed SignalQueue             *)
(* (app/core/queue.py), the webhook ingress that enqueues one signal per   *)
(* subscriber (app/api/webhooks.py), the SignalProcessor workers           *)
(* (app/workers/signal_processor.py), the RiskManager                      *)
(* (app/core/risk_manager.py) and the TradeExecutor                        *)
(* (app/core/trade_executor.py).                                           *)
(*                                                                         *)
(* Every Redis command is one atomic step; the Python code that runs       *)
(* between the reply of one command and the sending of the next (clock     *)
(* reads, field updates) belongs to the step of the command it follows.    *)
(* Time is in whole seconds.                                               *)
(***************************************************************************)
EXTENDS Integers, Sequences, FiniteSets

\* ---------------------------------------------------------------- bounds
\* Number of ingress requests (each builds one QueuedSignal and calls enqueue).
MaxSignals == 2

\* Number of times the clock advances in a run.
MaxTicks == 1

\* Number of recover_processing calls in a run.
MaxRecoverCalls == 1

\* Number of ingress requests in the runs that follow one signal closely (with
\* recover_processing, the execution spelled out, restarts, rejected requests).
MaxRecoverSignals == 1

\* Amounts by which the clock advances: a second, and more than the dedup
\* window and the default recovery age.
TickSteps == {1, 301}

\* ------------------------------------------------------ program constants
HIGH == 0

NORMAL == 1

LOW == 2

\* queue.py multiplies the priority by 1e12; TLC integers are 32 bits wide, so
\* the model uses 10^9, which like 1e12 exceeds every timestamp that occurs.
ScoreScale == 1000000000

DefaultMaxRetries == 3

BackoffCap == 60

DedupTtl == 30

RecoverMaxAge == 300

NumWorkers == 2

\* ------------------------------------------------------------------ sets
Ids == 1..MaxSignals

Workers == 1..NumWorkers

\* the actions of the signals of the larger runs
Actions == {"long_entry", "long_exit"}

\* valid_actions
AllActions == {"long_entry", "long_exit", "short_entry", "short_exit"}

NoId == 0

NoTime == -1

NoScore == -1

NoSignal ==
  [action |-> "none", priority |-> -1, retry_count |-> -1,
   max_retries |-> -1, created_at |-> NoTime]

NoMarker == [value |-> NoId, expires |-> NoTime]

\* None, for a Decimal or an int
NoDecimal == -1

\* RiskSettings(): the defaults of the dataclass
DefaultSettings ==
  [max_position_size_usd |-> 1000, max_leverage |-> 10, max_open_positions |-> 5,
   max_daily_trades |-> 50, max_daily_loss_percent |-> 10,
   max_portfolio_exposure_percent |-> 80, default_risk_per_trade_percent |-> 2,
   require_stop_loss |-> TRUE]

\* a user_risk_settings query that has not been made; a NULL column is NoDecimal
\* and, for require_stop_loss, "null"
NoRow ==
  [state |-> "unread", max_position_size_usd |-> NoDecimal, max_leverage |-> NoDecimal,
   max_open_positions |-> NoDecimal, max_daily_trades |-> NoDecimal,
   max_daily_loss_percent |-> NoDecimal, max_portfolio_exposure_percent |-> NoDecimal,
   default_risk_per_trade_percent |-> NoDecimal, require_stop_loss |-> "null"]

\* the PortfolioState of an account that has not traded today
DefaultPortfolio ==
  [total_balance_usd |-> 10000, open_positions_count |-> 0,
   open_positions_value_usd |-> 0, daily_trades_count |-> 0,
   daily_loss_percent |-> 0]

NoTrade ==
  [quantity |-> NoDecimal, entry_price |-> NoDecimal, stop_loss |-> NoDecimal,
   leverage |-> NoDecimal]

NoResult ==
  [passed |-> FALSE, reason |-> "none", adjusted_quantity |-> NoDecimal,
   warnings |-> <<>>]

NoRequest ==
  [schema_ok |-> FALSE, strategy |-> "none", secret_len |-> NoDecimal,
   secret_valid |-> FALSE, has_subscribers |-> FALSE, decimals_ok |-> FALSE]

\* user_id[:8] keeps this many characters
PrefixLen == 8

\* The user ids of the subscribers: UUIDs, modelled as sequences of hex digits
\* (here one more digit than the slice keeps). The first two agree on the
\* first PrefixLen digits and differ in the last.
UserIds ==
  {<<1, 1, 1, 1, 1, 1, 1, 1, 1>>,
   <<1, 1, 1, 1, 1, 1, 1, 1, 2>>,
   <<2, 1, 1, 1, 1, 1, 1, 1, 1>>}

\* no Signal, no adapter answers, no ExecutionResult
NoExecSignal ==
  [action |-> "none", price |-> NoDecimal, stop_loss |-> NoDecimal,
   take_profit |-> NoDecimal, quantity |-> NoDecimal, leverage |-> NoDecimal]

NoVenue ==
  [ticker |-> NoDecimal, place |-> "none", stop_place |-> "none",
   take_place |-> "none"]

NoExecution == [status |-> "none", error |-> "none", placed |-> FALSE]

VARIABLES
  now,          \* the wall clock, datetime.utcnow()
  ticks,        \* how often the clock has advanced
  queue,        \* signals:queue     (ZSET): id -> score, NoScore when absent
  processing,   \* signals:processing (SET)
  dead_letter,  \* signals:dead_letter (LIST), head first
  body,         \* signal:<id>       (STRING): id -> QueuedSignal, NoSignal when absent
  dedup,        \* dedup:<key>       (STRING with TTL): key -> marker
  epc,          \* ingress request r: where it is in receive_tradingview_signal/enqueue
  esig,         \* ingress request r: the QueuedSignal it built
  estamp,       \* ingress request r: `timestamp` of enqueue (queue.py:120)
  eret,         \* ingress request r: what enqueue returned
  eafter,       \* ingress request r: the requests that had returned when r called enqueue
  wpc,          \* worker w: where it is in _worker_loop
  wcur,         \* worker w: signal_id in hand
  wscore,       \* worker w: the score of the ZPOPMIN reply
  wsig,         \* worker w: the QueuedSignal in hand
  wretry,       \* worker w: the retry argument of fail
  werr,         \* worker w: the error argument of fail
  wstamp,       \* worker w: utcnow() read in fail (queue.py:224)
  rpc,          \* recover_processing: where it is
  rtodo,        \* recover_processing: ids of the SMEMBERS reply still to visit
  rcur,         \* recover_processing: signal_id of the iteration
  rsig,         \* recover_processing: the QueuedSignal of the iteration
  rstamp,       \* recover_processing: utcnow() read at queue.py:309
  rcalls,       \* recover_processing: how often it has been called
  recovered,    \* recover_processing: `recovered`, the value it returns
  running,      \* SignalProcessor._running
  wstatus,      \* worker w: result.status of its last execute_signal
  ereq,         \* ingress request r: the payload and what the stores say of it
  estatus,      \* ingress request r: the HTTP status of a rejected request
  trade,        \* check_trade: the TradeRequest
  portfolio,    \* check_trade: the PortfolioState
  settings,     \* RiskManager.settings
  risk_result,  \* _execute_entry: risk_result
  order,        \* _execute_entry: the OrderRequest handed to place_order
  fpc,          \* fan-out request: where it is in the loop over the subscriptions
  fusers,       \* fan-out request: the user_id of each subscription, in order
  faction,      \* fan-out request: signal.action
  fidx,         \* fan-out request: the position of `subscription` in the loop
  fsig,         \* fan-out request: the QueuedSignal of the iteration
  fstamp,       \* fan-out request: `timestamp` of enqueue (queue.py:120)
  fqueued,      \* fan-out request: queued_count
  udedup,       \* dedup:<user_id>:<symbol>:<action> of the fan-out request
  xsignal,      \* execute_signal: the Signal
  venue,        \* execute_signal: what the exchange adapter answers
  orders,       \* execute_signal: the OrderRequests handed to place_order, in order
  xresult,      \* execute_signal: the ExecutionResult
  sink,         \* the messages handed to the WebSocket connection manager
  risk_row,     \* get_user_risk_settings: what the user_risk_settings query finds
  accepted      \* per signal: the entry orders place_order returned a result for

qvars == <<queue, processing, dead_letter, body, dedup>>

evars == <<epc, esig, estamp, eret, eafter>>

wvars == <<wpc, wcur, wscore, wsig, wretry, werr, wstamp>>

rvars == <<rpc, rtodo, rcur, rsig, rstamp, rcalls>>

\* the risk manager and the entry order of the executor
kvars == <<trade, portfolio, settings, risk_result, order>>

\* the request validation of the webhook
hvars == <<ereq, estatus>>

\* the loop of the webhook over the subscriptions
fvars == <<fpc, fusers, faction, fidx, fsig, fstamp, fqueued>>

\* the executor seen from its Signal to its ExecutionResult
tvars == <<xsignal, venue, orders, xresult>>

\* what the clock leaves alone besides
yvars == <<fvars, tvars, sink, risk_row, accepted>>

\* what the queue operations and the enqueue path leave alone
xvars == <<kvars, hvars, wstatus, running, yvars, udedup>>

vars == <<now, ticks, qvars, evars, wvars, rvars, recovered, xvars>>

\* ------------------------------------------------------------- operators
Min(a, b) == IF a < b THEN a ELSE b

RECURSIVE Pow2(_)
Pow2(n) == IF n <= 0 THEN 1 ELSE 2 * Pow2(n - 1)

\* a score that leaves the priority out
ScoreTimestampOnly(priority, timestamp) == timestamp

\* score = priority * 1e12 + timestamp
Score(priority, timestamp) == priority * ScoreScale + timestamp

\* the priority class and the timestamp a score encodes
ScoreClass(s) == s \div ScoreScale

ScoreTime(s) == s % ScoreScale

\* a priority that does not look at the action
PriorityAlwaysNormal(action) == NORMAL

\* a priority that takes every signal for an exit
PriorityAlwaysHigh(action) == HIGH

\* priority = HIGH if "exit" in action else NORMAL
PriorityOf(action) == IF action \in {"long_exit", "short_exit"} THEN HIGH ELSE NORMAL

\* dedup_key = f"{user_id}:{symbol}:{action}": one subscriber and one symbol
\* are modelled, so the key is the action.
DedupKey(action) == action

\* the delay computed from the retry count before its increment
RetryDelayBeforeIncrement(retry_count) == Min(Pow2(retry_count - 1), BackoffCap)

\* delay = min(2 ** retry_count, 60)
RetryDelay(retry_count) == Min(Pow2(retry_count), BackoffCap)

\* a dedup check that never finds the marker
DedupNeverExists(key) == FALSE

\* a dedup check that overlooks the marker
DedupMissed(key) == FALSE

\* EXISTS dedup:<key>
DedupExists(key) == dedup[key].value # NoId /\ now < dedup[key].expires

\* the members of signals:queue
Queued == {x \in Ids : queue[x] # NoScore}

\* a pop of a member with the highest score, as ZPOPMAX would do
PopMax == {x \in Queued : \A y \in Queued : queue[x] >= queue[y]}

\* a pop that never finds a member
PopNothing == {}

\* ZPOPMIN: a member with the lowest score (members of equal score are
\* ordered by their text, which the model does not fix)
PopMin == {x \in Queued : \A y \in Queued : queue[x] <= queue[y]}

\* a retry test that allows one retry too many
WillRetryOnceMore(retry, signal) == retry /\ signal.retry_count <= signal.max_retries

\* retry and signal.retry_count < signal.max_retries
WillRetry(retry, signal) == retry /\ signal.retry_count < signal.max_retries

\* Redis empty, the workers started, no request received, no risk check made.
InitPipeline ==
  /\ now = 0
  /\ ticks = 0
  /\ queue = [x \in Ids |-> NoScore]
  /\ processing = {}
  /\ dead_letter = <<>>
  /\ body = [x \in Ids |-> NoSignal]
  /\ dedup = [k \in AllActions |-> NoMarker]
  /\ epc = [r \in Ids |-> "new"]
  /\ esig = [r \in Ids |-> NoSignal]
  /\ estamp = [r \in Ids |-> NoTime]
  /\ eret = [r \in Ids |-> "none"]
  /\ eafter = [r \in Ids |-> {}]
  /\ wpc = [w \in Workers |-> "idle"]
  /\ wcur = [w \in Workers |-> NoId]
  /\ wscore = [w \in Workers |-> NoScore]
  /\ wsig = [w \in Workers |-> NoSignal]
  /\ wretry = [w \in Workers |-> FALSE]
  /\ werr = [w \in Workers |-> "none"]
  /\ wstamp = [w \in Workers |-> NoTime]
  /\ rpc = "idle"
  /\ rtodo = {}
  /\ rcur = NoId
  /\ rsig = NoSignal
  /\ rstamp = NoTime
  /\ rcalls = 0
  /\ recovered = 0
  /\ running = TRUE
  /\ wstatus = [w \in Workers |-> "none"]
  /\ ereq = [r \in Ids |-> NoRequest]
  /\ estatus = [r \in Ids |-> NoDecimal]
  /\ risk_result = NoResult
  /\ order = NoDecimal
  /\ fpc = "new"
  /\ fusers = <<>>
  /\ faction = "none"
  /\ fidx = 0
  /\ fsig = NoSignal
  /\ fstamp = NoTime
  /\ fqueued = 0
  /\ udedup = [u \in UserIds |-> NoMarker]
  /\ orders = <<>>
  /\ xresult = NoExecution
  /\ sink = <<>>
  /\ accepted = [x \in Ids |-> 0]

\* The state once run_worker has connected to an empty Redis and started the
\* workers; no request has arrived.
Init ==
  /\ InitPipeline
  /\ xsignal = NoExecSignal
  /\ venue = NoVenue
  /\ trade = NoTrade
  /\ portfolio = DefaultPortfolio
  /\ settings = DefaultSettings
  /\ risk_row = NoRow

\* ------------------------------------------------------------- the clock
\* Time passes; Redis drops the dedup markers whose TTL has run out.
Tick ==
  /\ ticks < MaxTicks
  /\ \E d \in TickSteps :
       /\ now' = now + d
       /\ dedup' = [k \in AllActions |->
                      IF dedup[k].value # NoId /\ dedup[k].expires <= now + d
                      THEN NoMarker ELSE dedup[k]]
       /\ udedup' = [u \in UserIds |->
                       IF udedup[u].value # NoId /\ udedup[u].expires <= now + d
                       THEN NoMarker ELSE udedup[u]]
  /\ ticks' = ticks + 1
  /\ UNCHANGED <<queue, processing, dead_letter, body, evars, wvars, rvars,
                 recovered, kvars, hvars, wstatus, running, yvars>>

\* ------------------------------------------------------------- ingress
\* receive_tradingview_signal, one subscriber: the priority from the action,
\* the QueuedSignal, and the call of enqueue with the dedup key. The ids are
\* fresh uuids, so the requests are numbered in the order they arrive.
IngressCall(r, a) ==
  /\ epc[r] = "new"
  /\ \A x \in Ids : x < r => epc[x] # "new"
  /\ esig' = [esig EXCEPT ![r] =
                [action |-> a, priority |-> PriorityOf(a), retry_count |-> 0,
                 max_retries |-> DefaultMaxRetries, created_at |-> NoTime]]
  /\ eafter' = [eafter EXCEPT ![r] = {x \in Ids : epc[x] = "done"}]
  /\ epc' = [epc EXCEPT ![r] = "exists"]
  /\ UNCHANGED <<xvars, recovered, now, ticks, qvars, estamp, eret, wvars, rvars>>

\* exists = await self.redis.exists(dedup_full_key); if exists: return False
EnqExists(r) ==
  /\ epc[r] = "exists"
  /\ IF DedupExists(DedupKey(esig[r].action))
     THEN /\ eret' = [eret EXCEPT ![r] = "false"]
          /\ epc' = [epc EXCEPT ![r] = "done"]
     ELSE /\ epc' = [epc EXCEPT ![r] = "setex"]
          /\ eret' = eret
  /\ UNCHANGED <<xvars, recovered, now, ticks, qvars, esig, estamp, eafter, wvars, rvars>>

\* await self.redis.setex(dedup_full_key, dedup_ttl, signal.signal_id), then
\* signal.created_at = utcnow()
EnqSetex(r) ==
  /\ epc[r] = "setex"
  /\ dedup' = [dedup EXCEPT ![DedupKey(esig[r].action)] =
                 [value |-> r, expires |-> now + DedupTtl]]
  /\ esig' = [esig EXCEPT ![r].created_at = now]
  /\ epc' = [epc EXCEPT ![r] = "set"]
  /\ UNCHANGED <<xvars, recovered, now, ticks, queue, processing, dead_letter, body,
                 estamp, eret, eafter, wvars, rvars>>

\* await self.redis.set(signal_key, signal.to_json()), then
\* timestamp = utcnow().timestamp()
EnqSet(r) ==
  /\ epc[r] = "set"
  /\ body' = [body EXCEPT ![r] = esig[r]]
  /\ estamp' = [estamp EXCEPT ![r] = now]
  /\ epc' = [epc EXCEPT ![r] = "zadd"]
  /\ UNCHANGED <<xvars, recovered, now, ticks, queue, processing, dead_letter, dedup,
                 esig, eret, eafter, wvars, rvars>>

\* await self.redis.zadd(QUEUE_KEY, {signal_id: score}); return True
EnqZadd(r) ==
  /\ epc[r] = "zadd"
  /\ queue' = [queue EXCEPT ![r] = Score(esig[r].priority, estamp[r])]
  /\ eret' = [eret EXCEPT ![r] = "true"]
  /\ epc' = [epc EXCEPT ![r] = "done"]
  /\ UNCHANGED <<xvars, recovered, now, ticks, processing, dead_letter, body, dedup,
                 esig, estamp, eafter, wvars, rvars>>

\* The ingress requests numbered up to n.
IngressUpTo(n) ==
  \E r \in 1..n :
    \/ \E a \in Actions : IngressCall(r, a)
    \/ EnqExists(r)
    \/ EnqSetex(r)
    \/ EnqSet(r)
    \/ EnqZadd(r)

Ingress == IngressUpTo(MaxSignals)

IngressFew == IngressUpTo(MaxRecoverSignals)

\* The same requests, with any of the valid actions.
IngressAnyAction ==
  \E r \in 1..MaxRecoverSignals :
    \/ \E a \in AllActions : IngressCall(r, a)
    \/ EnqExists(r)
    \/ EnqSetex(r)
    \/ EnqSet(r)
    \/ EnqZadd(r)

\* ------------------------------------------------------------- workers
\* The worker returns to the top of _worker_loop with nothing in hand.
WorkerRest(w) ==
  /\ wpc' = [wpc EXCEPT ![w] = "idle"]
  /\ wcur' = [wcur EXCEPT ![w] = NoId]
  /\ wscore' = [wscore EXCEPT ![w] = NoScore]
  /\ wsig' = [wsig EXCEPT ![w] = NoSignal]
  /\ wretry' = [wretry EXCEPT ![w] = FALSE]
  /\ werr' = [werr EXCEPT ![w] = "none"]
  /\ wstamp' = [wstamp EXCEPT ![w] = NoTime]

\* dequeue: result = await self.redis.bzpopmin(QUEUE_KEY, timeout); an empty
\* queue times out and the loop calls dequeue again.
DeqPop(w) ==
  /\ wpc[w] = "idle"
  /\ \E x \in PopMin :
       /\ queue' = [queue EXCEPT ![x] = NoScore]
       /\ wcur' = [wcur EXCEPT ![w] = x]
       /\ wscore' = [wscore EXCEPT ![w] = queue[x]]
  /\ wpc' = [wpc EXCEPT ![w] = "deq_get"]
  /\ UNCHANGED <<xvars, recovered, now, ticks, processing, dead_letter, body, dedup, evars,
                 wsig, wretry, werr, wstamp, rvars>>

\* dequeue: signal_data = await self.redis.get(signal_key); return None when
\* it is missing
DeqGet(w) ==
  /\ wpc[w] = "deq_get"
  /\ IF body[wcur[w]] = NoSignal
     THEN WorkerRest(w)
     ELSE /\ wsig' = [wsig EXCEPT ![w] = body[wcur[w]]]
          /\ wpc' = [wpc EXCEPT ![w] = "deq_sadd"]
          /\ UNCHANGED <<wcur, wscore, wretry, werr, wstamp>>
  /\ UNCHANGED <<xvars, recovered, now, ticks, qvars, evars, rvars>>

\* dequeue: await self.redis.sadd(PROCESSING_KEY, signal_id); return signal
DeqSadd(w) ==
  /\ wpc[w] = "deq_sadd"
  /\ processing' = processing \cup {wcur[w]}
  /\ wpc' = [wpc EXCEPT ![w] = "process"]
  /\ UNCHANGED <<xvars, recovered, now, ticks, queue, dead_letter, body, dedup, evars,
                 wcur, wscore, wsig, wretry, werr, wstamp, rvars>>

\* _process_signal up to the queue call it ends with: FILLED or
\* PARTIALLY_FILLED -> complete; RISK_CHECK_FAILED -> fail(retry=False); any
\* other status or an exception -> fail(retry=True).
ProcessSignal(w, outcome) ==
  /\ wpc[w] = "process"
  /\ CASE outcome = "filled" ->
            /\ wpc' = [wpc EXCEPT ![w] = "complete_srem"]
            /\ UNCHANGED <<wretry, werr>>
       [] outcome = "risk" ->
            /\ wpc' = [wpc EXCEPT ![w] = "fail_srem"]
            /\ wretry' = [wretry EXCEPT ![w] = FALSE]
            /\ werr' = [werr EXCEPT ![w] = outcome]
       [] OTHER ->
            /\ wpc' = [wpc EXCEPT ![w] = "fail_srem"]
            /\ wretry' = [wretry EXCEPT ![w] = TRUE]
            /\ werr' = [werr EXCEPT ![w] = outcome]
  /\ UNCHANGED <<xvars, recovered, now, ticks, qvars, evars, wcur, wscore, wsig, wstamp, rvars>>

\* complete: await self.redis.srem(PROCESSING_KEY, signal_id)
CompleteSrem(w) ==
  /\ wpc[w] = "complete_srem"
  /\ processing' = processing \ {wcur[w]}
  /\ wpc' = [wpc EXCEPT ![w] = "complete_del"]
  /\ UNCHANGED <<xvars, recovered, now, ticks, queue, dead_letter, body, dedup, evars,
                 wcur, wscore, wsig, wretry, werr, wstamp, rvars>>

\* complete: await self.redis.delete(signal_key)
CompleteDel(w) ==
  /\ wpc[w] = "complete_del"
  /\ body' = [body EXCEPT ![wcur[w]] = NoSignal]
  /\ WorkerRest(w)
  /\ UNCHANGED <<xvars, recovered, now, ticks, queue, processing, dead_letter, dedup, evars, rvars>>

\* fail: await self.redis.srem(PROCESSING_KEY, signal_id)
FailSrem(w) ==
  /\ wpc[w] = "fail_srem"
  /\ processing' = processing \ {wcur[w]}
  /\ wpc' = [wpc EXCEPT ![w] = "fail_get"]
  /\ UNCHANGED <<xvars, recovered, now, ticks, queue, dead_letter, body, dedup, evars,
                 wcur, wscore, wsig, wretry, werr, wstamp, rvars>>

\* fail: signal_data = await self.redis.get(signal_key); return False when it
\* is missing; else the branch on retry and retry_count, and in the retry
\* branch signal.retry_count += 1
FailGet(w) ==
  /\ wpc[w] = "fail_get"
  /\ IF body[wcur[w]] = NoSignal
     THEN WorkerRest(w)
     ELSE IF WillRetry(wretry[w], body[wcur[w]])
     THEN /\ wsig' = [wsig EXCEPT ![w] =
                        [body[wcur[w]] EXCEPT
                           !.retry_count = body[wcur[w]].retry_count + 1]]
          /\ wpc' = [wpc EXCEPT ![w] = "fail_set"]
          /\ UNCHANGED <<wcur, wscore, wretry, werr, wstamp>>
     ELSE /\ wsig' = [wsig EXCEPT ![w] = body[wcur[w]]]
          /\ wpc' = [wpc EXCEPT ![w] = "fail_lpush"]
          /\ UNCHANGED <<wcur, wscore, wretry, werr, wstamp>>
  /\ UNCHANGED <<xvars, recovered, now, ticks, qvars, evars, rvars>>

\* fail, retry branch: await self.redis.set(signal_key, signal.to_json()), then
\* scheduled_time = utcnow() + timedelta(seconds=delay)
FailSet(w) ==
  /\ wpc[w] = "fail_set"
  /\ body' = [body EXCEPT ![wcur[w]] = wsig[w]]
  /\ wstamp' = [wstamp EXCEPT ![w] = now]
  /\ wpc' = [wpc EXCEPT ![w] = "fail_zadd"]
  /\ UNCHANGED <<xvars, recovered, now, ticks, queue, processing, dead_letter, dedup, evars,
                 wcur, wscore, wsig, wretry, werr, rvars>>

\* the score of the retry: LOW * 1e12 + (utcnow() + delay).timestamp()
RetryScore(stamp, retry_count) == Score(LOW, stamp + RetryDelay(retry_count))

\* fail, retry branch: await self.redis.zadd(QUEUE_KEY, {signal_id: score});
\* return True
FailZadd(w) ==
  /\ wpc[w] = "fail_zadd"
  /\ queue' = [queue EXCEPT ![wcur[w]] = RetryScore(wstamp[w], wsig[w].retry_count)]
  /\ WorkerRest(w)
  /\ UNCHANGED <<xvars, recovered, now, ticks, processing, dead_letter, body, dedup, evars, rvars>>

\* fail, dead-letter branch: await self.redis.lpush(DEAD_LETTER_KEY, ...)
FailLpush(w) ==
  /\ wpc[w] = "fail_lpush"
  /\ dead_letter' = <<[signal_id |-> wcur[w], signal |-> wsig[w], error |-> werr[w],
                        failed_at |-> now]>> \o dead_letter
  /\ wpc' = [wpc EXCEPT ![w] = "fail_del"]
  /\ UNCHANGED <<xvars, recovered, now, ticks, queue, processing, body, dedup, evars,
                 wcur, wscore, wsig, wretry, werr, wstamp, rvars>>

\* fail, dead-letter branch: await self.redis.delete(signal_key); return False
FailDel(w) ==
  /\ wpc[w] = "fail_del"
  /\ body' = [body EXCEPT ![wcur[w]] = NoSignal]
  /\ WorkerRest(w)
  /\ UNCHANGED <<xvars, recovered, now, ticks, queue, processing, dead_letter, dedup, evars, rvars>>

Outcomes == {"filled", "risk", "error"}

Worker ==
  \E w \in Workers :
    \/ DeqPop(w)
    \/ DeqGet(w)
    \/ DeqSadd(w)
    \/ \E o \in Outcomes : ProcessSignal(w, o)
    \/ CompleteSrem(w)
    \/ CompleteDel(w)
    \/ FailSrem(w)
    \/ FailGet(w)
    \/ FailSet(w)
    \/ FailZadd(w)
    \/ FailLpush(w)
    \/ FailDel(w)

\* ------------------------------------------------- recover_processing
\* The loop of recover_processing goes on to the next id of the reply, or
\* returns.
RecoverRest ==
  /\ rpc' = IF rtodo = {} THEN "idle" ELSE "get"
  /\ rcur' = NoId
  /\ rsig' = NoSignal
  /\ rstamp' = NoTime

\* processing_ids = await self.redis.smembers(PROCESSING_KEY); recovered = 0
RecSmembers ==
  /\ rpc = "idle"
  /\ rcalls < MaxRecoverCalls
  /\ processing # {}
  /\ rtodo' = processing
  /\ rpc' = "get"
  /\ rcalls' = rcalls + 1
  /\ recovered' = 0
  /\ UNCHANGED <<xvars, now, ticks, qvars, evars, wvars, rcur, rsig, rstamp>>

\* an age test that takes every signal created before now as too old
TooOldAtAll(signal, max_age) == now - signal.created_at > 0

\* age > max_age_seconds, with age = (utcnow() - created).total_seconds()
TooOld(signal, max_age) == now - signal.created_at > max_age

\* for signal_id in processing_ids: signal_data = await self.redis.get(signal_key),
\* then the branch on its absence and on its age, and signal.retry_count += 1
RecGet(max_age) ==
  /\ rpc = "get"
  /\ \E x \in rtodo :
       /\ rtodo' = rtodo \ {x}
       /\ IF body[x] = NoSignal
          THEN /\ rpc' = "srem_missing"
               /\ rcur' = x
               /\ UNCHANGED <<rsig, rstamp>>
          ELSE IF body[x].created_at # NoTime /\ TooOld(body[x], max_age)
          THEN /\ rpc' = "set"
               /\ rcur' = x
               /\ rsig' = [body[x] EXCEPT !.retry_count = body[x].retry_count + 1]
               /\ UNCHANGED rstamp
          ELSE /\ rpc' = IF rtodo \ {x} = {} THEN "idle" ELSE "get"
               /\ UNCHANGED <<rcur, rsig, rstamp>>
  /\ UNCHANGED <<xvars, recovered, now, ticks, qvars, evars, wvars, rcalls>>

\* body missing: await self.redis.srem(PROCESSING_KEY, signal_id); continue
RecSremMissing ==
  /\ rpc = "srem_missing"
  /\ processing' = processing \ {rcur}
  /\ RecoverRest
  /\ UNCHANGED <<xvars, recovered, now, ticks, queue, dead_letter, body, dedup, evars,
                 wvars, rtodo, rcalls>>

\* await self.redis.set(signal_key, signal.to_json()), then utcnow() of the score
RecSet ==
  /\ rpc = "set"
  /\ body' = [body EXCEPT ![rcur] = rsig]
  /\ rstamp' = now
  /\ rpc' = "zadd"
  /\ UNCHANGED <<xvars, recovered, now, ticks, queue, processing, dead_letter, dedup, evars, wvars,
                 rtodo, rcur, rsig, rcalls>>

\* await self.redis.zadd(QUEUE_KEY, {signal_id: score}), score at HIGH priority
RecZadd ==
  /\ rpc = "zadd"
  /\ queue' = [queue EXCEPT ![rcur] = Score(HIGH, rstamp)]
  /\ rpc' = "srem"
  /\ UNCHANGED <<xvars, recovered, now, ticks, processing, dead_letter, body, dedup, evars, wvars,
                 rtodo, rcur, rsig, rstamp, rcalls>>

\* await self.redis.srem(PROCESSING_KEY, signal_id); recovered += 1; after the
\* last id, return recovered
RecSrem ==
  /\ rpc = "srem"
  /\ processing' = processing \ {rcur}
  /\ recovered' = recovered + 1
  /\ RecoverRest
  /\ UNCHANGED <<xvars, now, ticks, queue, dead_letter, body, dedup, evars, wvars,
                 rtodo, rcalls>>

Recover ==
  \/ RecSmembers
  \/ RecGet(RecoverMaxAge)
  \/ RecSremMissing
  \/ RecSet
  \/ RecZadd
  \/ RecSrem

\* ---------------------------------------------------------- risk manager
\* Amounts are whole numbers of USD and of units; the Decimal divisions of
\* check_trade are exact for the values the model draws.

\* a daily loss check that lets the limit itself pass
DailyLossLimitExceeded(p, s) == p.daily_loss_percent > s.max_daily_loss_percent

\* Check 1: portfolio.daily_loss_percent >= settings.max_daily_loss_percent
DailyLossLimitReached(p, s) == p.daily_loss_percent >= s.max_daily_loss_percent

\* a daily trade count check that lets the limit itself pass
DailyTradeLimitExceeded(p, s) == p.daily_trades_count > s.max_daily_trades

\* Check 2: portfolio.daily_trades_count >= settings.max_daily_trades
DailyTradeLimitReached(p, s) == p.daily_trades_count >= s.max_daily_trades

\* Check 3: portfolio.open_positions_count >= settings.max_open_positions
MaxOpenPositionsReached(p, s) == p.open_positions_count >= s.max_open_positions

\* Check 4: trade.leverage > settings.max_leverage
LeverageTooHigh(t, s) == t.leverage > s.max_leverage

\* position_value_usd = trade.quantity * trade.entry_price
PositionValue(t) == t.quantity * t.entry_price

\* Check 5: position_value_usd > settings.max_position_size_usd
PositionTooLarge(t, s) == PositionValue(t) > s.max_position_size_usd

\* adjusted_qty = settings.max_position_size_usd / trade.entry_price
AdjustedQuantity(t, s) == s.max_position_size_usd \div t.entry_price

\* Check 6: exposure_percent > settings.max_portfolio_exposure_percent, with
\* exposure_percent = new_exposure / total_balance_usd * 100 for a positive
\* balance and 100 otherwise
ExposureTooHigh(t, p, s) ==
  LET new_exposure == p.open_positions_value_usd + PositionValue(t)
  IN  IF p.total_balance_usd > 0
      THEN new_exposure * 100 > s.max_portfolio_exposure_percent * p.total_balance_usd
      ELSE 100 > s.max_portfolio_exposure_percent

\* Check 7: settings.require_stop_loss and trade.stop_loss is None
StopLossMissing(t, s) == s.require_stop_loss /\ t.stop_loss = NoDecimal

\* RiskCheckResult(passed=False, reason=...); the reason is the text of the
\* message without the figures it quotes
Rejected(reason) ==
  [passed |-> FALSE, reason |-> reason, adjusted_quantity |-> NoDecimal,
   warnings |-> <<>>]

\* RiskManager.check_trade
CheckTrade(t, p, s) ==
  IF DailyLossLimitReached(p, s) THEN Rejected("Daily loss limit reached")
  ELSE IF DailyTradeLimitReached(p, s) THEN Rejected("Daily trade limit reached")
  ELSE IF MaxOpenPositionsReached(p, s) THEN Rejected("Max open positions reached")
  ELSE IF LeverageTooHigh(t, s) THEN Rejected("Leverage exceeds maximum")
  ELSE IF PositionTooLarge(t, s)
  THEN [passed |-> TRUE, reason |-> "none",
        adjusted_quantity |-> AdjustedQuantity(t, s),
        warnings |-> <<"Position size reduced">>]
  ELSE IF ExposureTooHigh(t, p, s) THEN Rejected("Portfolio exposure exceeds maximum")
  ELSE IF StopLossMissing(t, s) THEN Rejected("Stop loss is required but not provided")
  ELSE [passed |-> TRUE, reason |-> "none", adjusted_quantity |-> NoDecimal,
        warnings |-> <<>>]

\* an entry order that ignores the adjustment of the risk manager
OrderQuantityRequested(quantity, result) == quantity

\* _execute_entry: if risk_result.adjusted_quantity: quantity = adjusted_quantity
OrderQuantity(quantity, result) ==
  IF result.adjusted_quantity # NoDecimal /\ result.adjusted_quantity # 0
  THEN result.adjusted_quantity
  ELSE quantity

\* The trade requests, portfolios and settings check_trade is applied to: each
\* limit below, at and above its setting.
Trades ==
  [quantity : {1, 30}, entry_price : {50, 100}, stop_loss : {NoDecimal, 95},
   leverage : {1, 10, 11}]

Portfolios ==
  [total_balance_usd : {0, 10000}, open_positions_count : {0, 5},
   open_positions_value_usd : {0, 7900, 8000}, daily_trades_count : {0, 50},
   daily_loss_percent : {0, 10}]

SettingsChoices ==
  {DefaultSettings, [DefaultSettings EXCEPT !.require_stop_loss = FALSE]}

\* _execute_entry: risk_result = self.risk_manager.check_trade(trade_request, portfolio)
CheckTradeCall ==
  /\ trade # NoTrade
  /\ risk_result = NoResult
  /\ risk_result' = CheckTrade(trade, portfolio, settings)
  /\ UNCHANGED <<now, ticks, qvars, evars, wvars, rvars, recovered, yvars, udedup, hvars, wstatus,
                 running, trade, portfolio, settings, order>>

\* _execute_entry: the OrderRequest built once the risk check has passed
BuildEntryOrder ==
  /\ risk_result # NoResult
  /\ risk_result.passed
  /\ order = NoDecimal
  /\ order' = OrderQuantity(trade.quantity, risk_result)
  /\ UNCHANGED <<now, ticks, qvars, evars, wvars, rvars, recovered, yvars, udedup, hvars, wstatus,
                 running, trade, portfolio, settings, risk_result>>

\* -------------------------------------------------------- trade executor
\* the OrderStatus values a venue reports for a placed order
OrderStatuses == {"PENDING", "OPEN", "FILLED", "PARTIALLY_FILLED", "CANCELED", "FAILED"}

\* the subclasses of ExchangeError that place_order raises, and ExchangeError
ExchangeErrors ==
  {"InsufficientFundsError", "InvalidOrderError", "RateLimitError", "ExchangeError"}

\* what place_order does: it returns an OrderResult with one of the statuses,
\* raises an ExchangeError, or raises another exception (a timeout)
PlaceOutcomes == OrderStatuses \cup ExchangeErrors \cup {"TimeoutError"}

\* _map_order_status
MapOrderStatus(status) ==
  CASE status = "PENDING" -> "pending"
    [] status = "OPEN" -> "executing"
    [] status = "FILLED" -> "filled"
    [] status = "PARTIALLY_FILLED" -> "partially_filled"
    [] status = "CANCELED" -> "canceled"
    [] status = "FAILED" -> "failed"
    [] OTHER -> "failed"

\* "entry" in signal.action, "long" in signal.action
IsEntryAction(action) == action \in {"long_entry", "short_entry"}

IsLongAction(action) == action \in {"long_entry", "long_exit"}

\* ExecutionResult: status, error (None is "none"), and whether place_order
\* was called; status "raised" stands for an exception that leaves the method
ExecutionResult(status, error, placed) ==
  [status |-> status, error |-> error, placed |-> placed]

\* _execute_entry, from the TradeRequest on: the risk check, then place_order
ExecuteEntry(t, p, s, place) ==
  LET result == CheckTrade(t, p, s)
  IN  IF ~result.passed
        THEN ExecutionResult("risk_check_failed", result.reason, FALSE)
      ELSE IF place = "InsufficientFundsError"
        THEN ExecutionResult("failed", "Insufficient funds", TRUE)
      ELSE IF place \in ExchangeErrors
        THEN ExecutionResult("failed", place, TRUE)
      ELSE IF place \notin OrderStatuses
        THEN ExecutionResult("raised", place, TRUE)
      ELSE ExecutionResult(MapOrderStatus(place), "none", TRUE)

\* f"No {target_side} position for {signal.symbol}", one symbol being modelled
NoSidePosition(target_side) ==
  IF target_side = "long" THEN "No long position for BTCUSDT"
  ELSE "No short position for BTCUSDT"

\* _execute_exit: positions is the set of sides of the positions the adapter
\* reports for the symbol
ExecuteExit(is_long, positions, place) ==
  LET target_side == IF is_long THEN "long" ELSE "short"
  IN  IF positions = {}
        THEN ExecutionResult("failed", "No open position for BTCUSDT", FALSE)
      ELSE IF target_side \notin positions
        THEN ExecutionResult("failed", NoSidePosition(target_side), FALSE)
      ELSE IF place \in ExchangeErrors
        THEN ExecutionResult("failed", place, TRUE)
      ELSE IF place \notin OrderStatuses
        THEN ExecutionResult("raised", place, TRUE)
      ELSE ExecutionResult(MapOrderStatus(place), "none", TRUE)

\* execute_signal: entry or exit by the action; an exception becomes FAILED
\* with its text as error
ExecuteSignal(action, env) ==
  LET result == IF IsEntryAction(action)
                THEN ExecuteEntry(env.trade, env.portfolio, DefaultSettings, env.place)
                ELSE ExecuteExit(IsLongAction(action), env.positions, env.place)
  IN  IF result.status = "raised"
      THEN ExecutionResult("failed", result.error, result.placed)
      ELSE result

\* What get_user_exchange finds: an adapter is returned only when the strategy,
\* the credentials and their validation are all in order; every other case
\* returns None.
ExchangeLookups ==
  {"ok", "no_strategy", "no_credentials", "invalid_credentials", "connect_error"}

GetUserExchange(lookup) == IF lookup = "ok" THEN "adapter" ELSE "None"

\* result.error or f"Execution failed: {result.status.value}"
ExecutionFailedMessage(result) ==
  IF result.error # "none" THEN result.error
  ELSE CASE result.status = "pending" -> "Execution failed: pending"
         [] result.status = "executing" -> "Execution failed: executing"
         [] result.status = "canceled" -> "Execution failed: canceled"
         [] OTHER -> "Execution failed: failed"

\* a worker that completes fully filled signals only
CompletesFilledOnly(status) == status = "filled"

\* result.status in [ExecutionStatus.FILLED, ExecutionStatus.PARTIALLY_FILLED]
Completes(status) == status \in {"filled", "partially_filled"}

\* The surroundings of one execution: what get_user_exchange finds, the trade
\* request an entry signal leads to, the portfolio, the positions the adapter
\* reports and what place_order does.
ExecEnvs ==
  [exchange : ExchangeLookups,
   trade : {[quantity |-> 1, entry_price |-> 100, stop_loss |-> 95, leverage |-> 1]},
   portfolio : {DefaultPortfolio, [DefaultPortfolio EXCEPT !.daily_loss_percent = 10]},
   positions : SUBSET {"long", "short"},
   place : PlaceOutcomes]

\* place_order of _execute_entry was reached and returned an OrderResult whose
\* status the venue gives to an order it took: the adapter exists, the risk
\* check passed, and the outcome is neither an exception nor a refusal
EntryAccepted(action, env) ==
  /\ GetUserExchange(env.exchange) # "None"
  /\ IsEntryAction(action)
  /\ CheckTrade(env.trade, env.portfolio, DefaultSettings).passed
  /\ env.place \in {"FILLED", "PARTIALLY_FILLED", "OPEN", "PENDING"}

\* _process_signal with its execution spelled out: no exchange raises
\* ValueError, which the except clause fails with retry=True; otherwise the
\* ExecutionResult of execute_signal chooses complete or fail.
ProcessSignalExec(w, env) ==
  /\ wpc[w] = "process"
  /\ IF GetUserExchange(env.exchange) = "None"
     THEN /\ wstatus' = [wstatus EXCEPT ![w] = "raised"]
          /\ wpc' = [wpc EXCEPT ![w] = "fail_srem"]
          /\ wretry' = [wretry EXCEPT ![w] = TRUE]
          /\ werr' = [werr EXCEPT ![w] = "No exchange configured for user/strategy"]
     ELSE LET result == ExecuteSignal(wsig[w].action, env)
          IN  /\ wstatus' = [wstatus EXCEPT ![w] = result.status]
              /\ IF Completes(result.status)
                 THEN /\ wpc' = [wpc EXCEPT ![w] = "complete_srem"]
                      /\ UNCHANGED <<wretry, werr>>
                 ELSE IF result.status = "risk_check_failed"
                 THEN /\ wpc' = [wpc EXCEPT ![w] = "fail_srem"]
                      /\ wretry' = [wretry EXCEPT ![w] = FALSE]
                      /\ werr' = [werr EXCEPT ![w] =
                                    IF result.error # "none" THEN result.error
                                    ELSE "Risk check failed"]
                 ELSE /\ wpc' = [wpc EXCEPT ![w] = "fail_srem"]
                      /\ wretry' = [wretry EXCEPT ![w] = TRUE]
                      /\ werr' = [werr EXCEPT ![w] = ExecutionFailedMessage(result)]
  /\ accepted' = IF EntryAccepted(wsig[w].action, env)
                  THEN [accepted EXCEPT ![wcur[w]] = @ + 1] ELSE accepted
  /\ UNCHANGED <<now, ticks, qvars, evars, wcur, wscore, wsig, wstamp, rvars,
                 recovered, fvars, tvars, sink, risk_row, udedup, kvars, hvars, running>>

WorkerExec ==
  \E w \in Workers :
    \/ DeqPop(w)
    \/ DeqGet(w)
    \/ DeqSadd(w)
    \/ \E env \in ExecEnvs : ProcessSignalExec(w, env)
    \/ CompleteSrem(w)
    \/ CompleteDel(w)
    \/ FailSrem(w)
    \/ FailGet(w)
    \/ FailSet(w)
    \/ FailZadd(w)
    \/ FailLpush(w)
    \/ FailDel(w)

\* The Redis command queue.complete is waiting in raises (the connection is
\* lost before the command is carried out): the exception leaves complete
\* inside the try of _process_signal, whose except clause calls
\* fail(signal_id, error=str(e), retry=True).
CompleteRaises(w) ==
  /\ wpc[w] \in {"complete_srem", "complete_del"}
  /\ wpc' = [wpc EXCEPT ![w] = "fail_srem"]
  /\ wretry' = [wretry EXCEPT ![w] = TRUE]
  /\ werr' = [werr EXCEPT ![w] = "ConnectionError"]
  /\ UNCHANGED <<xvars, recovered, now, ticks, qvars, evars, wcur, wscore, wsig,
                 wstamp, rvars>>

\* ------------------------------------------------ the entry in full
\* `if x` / `not x` for an Optional[Decimal]: None and zero are false
Truthy(d) == d # NoDecimal /\ d # 0

Abs(n) == IF n < 0 THEN -n ELSE n

\* calculate_position_size with risk_percent left out. The amounts of the
\* model are chosen so that every division of the code comes out whole.
CalculatePositionSize(balance_usd, entry_price, stop_loss, s) ==
  LET risk_amount == (balance_usd * s.default_risk_per_trade_percent) \div 100
      stop_distance == Abs(entry_price - stop_loss)
  IN  IF stop_distance = 0 THEN 0
      ELSE Min(risk_amount \div stop_distance,
               s.max_position_size_usd \div entry_price)

\* entry_price = signal.price, or the last price of the ticker
EntryPrice(sig, v) == IF Truthy(sig.price) THEN sig.price ELSE v.ticker

\* _execute_entry: the quantity of the signal; without one and with a stop
\* loss, the size the stop loss gives; and when that leaves no quantity, the
\* size for a stop 2% away from the entry price
EntryQuantity(sig, entry_price, is_long, p, s) ==
  LET sized == IF ~Truthy(sig.quantity) /\ Truthy(sig.stop_loss)
               THEN CalculatePositionSize(p.total_balance_usd, entry_price,
                                          sig.stop_loss, s)
               ELSE sig.quantity
      stop_distance == (entry_price * 2) \div 100
      hypothetical_stop == IF is_long THEN entry_price - stop_distance
                           ELSE entry_price + stop_distance
  IN  IF ~Truthy(sized)
      THEN CalculatePositionSize(p.total_balance_usd, entry_price,
                                 hypothetical_stop, s)
      ELSE sized

\* the TradeRequest handed to check_trade
EntryTrade(sig, v, p, s) ==
  [quantity |-> EntryQuantity(sig, EntryPrice(sig, v), IsLongAction(sig.action), p, s),
   entry_price |-> EntryPrice(sig, v), stop_loss |-> sig.stop_loss,
   leverage |-> sig.leverage]

\* OrderRequest of the entry: a market order, BUY for long and SELL for short
EntryOrderRequest(is_long, quantity) ==
  [side |-> IF is_long THEN "BUY" ELSE "SELL", type |-> "MARKET",
   quantity |-> quantity, price |-> NoDecimal, stop_price |-> NoDecimal,
   reduce_only |-> FALSE]

\* OrderRequest of _place_stop_loss
StopLossOrder(sig, quantity, is_long) ==
  [side |-> IF is_long THEN "SELL" ELSE "BUY", type |-> "STOP_MARKET",
   quantity |-> quantity, price |-> NoDecimal, stop_price |-> sig.stop_loss,
   reduce_only |-> TRUE]

\* OrderRequest of _place_take_profit
TakeProfitOrder(sig, quantity, is_long) ==
  [side |-> IF is_long THEN "SELL" ELSE "BUY", type |-> "LIMIT",
   quantity |-> quantity, price |-> sig.take_profit, stop_price |-> NoDecimal,
   reduce_only |-> TRUE]

\* a placement of the stop loss or take profit that lets the exception of
\* place_order through
ProtectiveRaisesOnError(outcome) == outcome \notin OrderStatuses

\* _place_stop_loss and _place_take_profit catch every Exception of place_order
\* and return None: nothing is raised to _execute_entry
ProtectiveRaises(outcome) == FALSE

\* the stop loss is placed: if signal.stop_loss and order_result.status == FILLED
PlacesStopLoss(sig, v) == Truthy(sig.stop_loss) /\ v.place = "FILLED"

\* the take profit is placed; an exception out of the stop loss would have left
\* _execute_entry before
PlacesTakeProfit(sig, v) ==
  /\ Truthy(sig.take_profit)
  /\ v.place = "FILLED"
  /\ ~(PlacesStopLoss(sig, v) /\ ProtectiveRaises(v.stop_place))

\* an executor that goes on to place_order whatever the risk check said
PlacesEntryAlways(result) == TRUE

\* if not risk_result.passed: return ...; place_order is reached only past it
PlacesEntry(result) == result.passed

\* The OrderRequests _execute_entry hands to place_order, in order; the
\* protective orders are for order_result.filled_quantity, which for a filled
\* order is its quantity.
EntryOrders(sig, v, p, s) ==
  LET t == EntryTrade(sig, v, p, s)
      result == CheckTrade(t, p, s)
      quantity == OrderQuantity(t.quantity, result)
      is_long == IsLongAction(sig.action)
  IN  IF ~PlacesEntry(result) THEN <<>>
      ELSE <<EntryOrderRequest(is_long, quantity)>>
           \o (IF PlacesStopLoss(sig, v)
               THEN <<StopLossOrder(sig, quantity, is_long)>> ELSE <<>>)
           \o (IF PlacesTakeProfit(sig, v)
               THEN <<TakeProfitOrder(sig, quantity, is_long)>> ELSE <<>>)

\* execute_signal for an entry signal: the ExecutionResult of _execute_entry;
\* an exception that leaves it becomes FAILED with its text as error
EntryResult(sig, v, p, s) ==
  LET result == ExecuteEntry(EntryTrade(sig, v, p, s), p, s, v.place)
  IN  IF result.status = "raised"
        THEN ExecutionResult("failed", result.error, result.placed)
      ELSE IF PlacesStopLoss(sig, v) /\ ProtectiveRaises(v.stop_place)
        THEN ExecutionResult("failed", v.stop_place, TRUE)
      ELSE IF PlacesTakeProfit(sig, v) /\ ProtectiveRaises(v.take_place)
        THEN ExecutionResult("failed", v.take_place, TRUE)
      ELSE result

\* the entry signals given to the executor
ExecSignals ==
  [action : {"long_entry", "short_entry"}, price : {NoDecimal, 100},
   stop_loss : {NoDecimal, 95, 100}, take_profit : {NoDecimal, 110},
   quantity : {NoDecimal, 0, 1, 30}, leverage : {1, 11}]

\* what the adapter answers: the last price, the outcome of the entry order
\* and of the two protective orders (accepted, refused, timed out)
Venues ==
  [ticker : {100}, place : PlaceOutcomes,
   stop_place : {"OPEN", "ExchangeError", "TimeoutError"},
   take_place : {"OPEN", "ExchangeError", "TimeoutError"}]

EntryPortfolios ==
  {DefaultPortfolio, [DefaultPortfolio EXCEPT !.total_balance_usd = 500]}

\* execute_signal(signal, portfolio) for an entry signal, from the Signal to
\* the ExecutionResult
ExecuteEntryCall ==
  /\ xsignal # NoExecSignal
  /\ xresult = NoExecution
  /\ trade' = EntryTrade(xsignal, venue, portfolio, settings)
  /\ risk_result' = CheckTrade(trade', portfolio, settings)
  /\ order' = IF risk_result'.passed
              THEN OrderQuantity(trade'.quantity, risk_result') ELSE NoDecimal
  /\ orders' = EntryOrders(xsignal, venue, portfolio, settings)
  /\ xresult' = EntryResult(xsignal, venue, portfolio, settings)
  /\ UNCHANGED <<now, ticks, qvars, evars, wvars, rvars, recovered, hvars, wstatus,
                 running, fvars, udedup, sink, risk_row, accepted, portfolio, settings,
                 xsignal, venue>>

\* ------------------------------------------------------ the exit in full
\* a close order that is an ordinary market order
ExitOrderNotReducing(is_long, quantity) == EntryOrderRequest(~is_long, quantity)

\* OrderRequest of _execute_exit: a market order, SELL for a long position and
\* BUY for a short one, reduce_only=True
ExitOrderRequest(is_long, quantity) ==
  [side |-> IF is_long THEN "SELL" ELSE "BUY", type |-> "MARKET",
   quantity |-> quantity, price |-> NoDecimal, stop_price |-> NoDecimal,
   reduce_only |-> TRUE]

\* the first position of the target side, the loop of _execute_exit
MatchingPosition(positions, target_side) ==
  LET hits == {i \in DOMAIN positions : positions[i].side = target_side}
  IN  positions[CHOOSE i \in hits : \A j \in hits : i <= j]

\* The OrderRequests _execute_exit hands to place_order: none without a
\* position of the side, else one for signal.quantity or position.quantity.
ExitOrders(sig, v) ==
  LET is_long == IsLongAction(sig.action)
      target_side == IF is_long THEN "long" ELSE "short"
  IN  IF \A i \in DOMAIN v.positions : v.positions[i].side # target_side
      THEN <<>>
      ELSE <<ExitOrderRequest(is_long,
               IF Truthy(sig.quantity) THEN sig.quantity
               ELSE MatchingPosition(v.positions, target_side).quantity)>>

\* execute_signal for an exit signal: the ExecutionResult of _execute_exit; an
\* exception that leaves it becomes FAILED with its text as error
ExitResult(sig, v) ==
  LET result == ExecuteExit(IsLongAction(sig.action),
                            {v.positions[i].side : i \in DOMAIN v.positions}, v.place)
  IN  IF result.status = "raised"
      THEN ExecutionResult("failed", result.error, result.placed)
      ELSE result

\* the exit signals given to the executor
ExitSignals ==
  [action : {"long_exit", "short_exit"}, price : {NoDecimal}, stop_loss : {NoDecimal},
   take_profit : {NoDecimal}, quantity : {NoDecimal, 0, 2}, leverage : {1, 11}]

\* what the adapter answers: the positions of get_positions and the outcome of
\* the close order
ExitVenues ==
  [positions : {<<>>, <<[side |-> "long", quantity |-> 3]>>,
                <<[side |-> "short", quantity |-> 4]>>,
                <<[side |-> "short", quantity |-> 4], [side |-> "long", quantity |-> 3]>>},
   place : PlaceOutcomes]

\* execute_signal(signal, portfolio) for an exit signal: the portfolio is not
\* passed on and check_trade is not called
ExecuteExitCall ==
  /\ xsignal # NoExecSignal
  /\ ~IsEntryAction(xsignal.action)
  /\ xresult = NoExecution
  /\ orders' = ExitOrders(xsignal, venue)
  /\ xresult' = ExitResult(xsignal, venue)
  /\ UNCHANGED <<now, ticks, qvars, evars, wvars, rvars, recovered, hvars, wstatus,
                 running, fvars, udedup, sink, risk_row, accepted, kvars, xsignal, venue>>

\* ------------------------------------------------------ stop and start
\* SignalProcessor.stop: _running = False and the gathered worker tasks are
\* cancelled, each at the await it is waiting in, so whatever a worker had in
\* hand is dropped where it is.
Stop ==
  /\ running
  /\ running' = FALSE
  /\ wpc' = [w \in Workers |-> "stopped"]
  /\ wcur' = [w \in Workers |-> NoId]
  /\ wscore' = [w \in Workers |-> NoScore]
  /\ wsig' = [w \in Workers |-> NoSignal]
  /\ wretry' = [w \in Workers |-> FALSE]
  /\ werr' = [w \in Workers |-> "none"]
  /\ wstamp' = [w \in Workers |-> NoTime]
  /\ UNCHANGED <<now, ticks, qvars, evars, rvars, recovered, yvars, udedup, kvars, hvars, wstatus>>

\* The next run of run_worker: a new SignalQueue on the same Redis, a new
\* SignalProcessor, start(num_workers=2).
Start ==
  /\ ~running
  /\ running' = TRUE
  /\ wpc' = [w \in Workers |-> "idle"]
  /\ UNCHANGED <<now, ticks, qvars, evars, wcur, wscore, wsig, wretry, werr, wstamp,
                 rvars, recovered, yvars, udedup, kvars, hvars, wstatus>>

\* ------------------------------------------------- request validation
\* What a request is to the checks of receive_tradingview_signal: whether the
\* payload fits TradingViewSignal (required fields, a valid action, leverage in
\* range), whether its strategy_id names an active, an inactive or no strategy,
\* how long its secret is, whether the secret is the strategy's webhook token,
\* whether the strategy has auto-trade subscribers, and whether price,
\* stop_loss and take_profit parse as Decimal.
SecretLengths == {0, 8, 15, 16, 32}

Requests ==
  [schema_ok : BOOLEAN, strategy : {"active", "inactive", "unknown"},
   secret_len : SecretLengths, secret_valid : BOOLEAN,
   has_subscribers : BOOLEAN, decimals_ok : BOOLEAN]

\* the checks without the parsing of the prices
WebhookStatusUnparsed(req) ==
  IF ~req.schema_ok THEN 422
  ELSE IF req.strategy = "unknown" THEN 404
  ELSE IF req.strategy = "inactive" THEN 400
  ELSE IF req.secret_len = 0 \/ req.secret_len < 16 THEN 401
  ELSE IF ~req.secret_valid THEN 401
  ELSE 200

\* The status the request is answered with when nothing but the checks goes
\* wrong: 422 from the validation of the payload before the handler runs, the
\* HTTPException the handler raises, or 200. A strategy without subscribers is
\* answered 200 before the prices are parsed.
WebhookStatus(req) ==
  IF ~req.schema_ok THEN 422
  ELSE IF req.strategy = "unknown" THEN 404
  ELSE IF req.strategy = "inactive" THEN 400
  ELSE IF req.secret_len = 0 \/ req.secret_len < 16 THEN 401
  ELSE IF ~req.secret_valid THEN 401
  ELSE IF ~req.has_subscribers THEN 200
  ELSE IF ~req.decimals_ok THEN 400
  ELSE 200

\* A request that one of the checks rejects: the handler raises the
\* HTTPException and returns.
IngressReject(r, req) ==
  /\ epc[r] = "new"
  /\ \A x \in Ids : x < r => epc[x] # "new"
  /\ WebhookStatus(req) # 200
  /\ ereq' = [ereq EXCEPT ![r] = req]
  /\ estatus' = [estatus EXCEPT ![r] = WebhookStatus(req)]
  /\ epc' = [epc EXCEPT ![r] = "done"]
  /\ UNCHANGED <<now, ticks, qvars, esig, estamp, eret, eafter, wvars, rvars,
                 recovered, yvars, udedup, kvars, wstatus, running>>

Rejects == \E r \in 1..MaxRecoverSignals : \E req \in Requests : IngressReject(r, req)

\* A request that passes the checks for a strategy nobody subscribes to: the
\* signal is recorded and the handler returns queued=False.
IngressUnsubscribed(r, req) ==
  /\ epc[r] = "new"
  /\ \A x \in Ids : x < r => epc[x] # "new"
  /\ WebhookStatus(req) = 200
  /\ ~req.has_subscribers
  /\ ereq' = [ereq EXCEPT ![r] = req]
  /\ estatus' = [estatus EXCEPT ![r] = 200]
  /\ epc' = [epc EXCEPT ![r] = "done"]
  /\ UNCHANGED <<now, ticks, qvars, esig, estamp, eret, eafter, wvars, rvars,
                 recovered, yvars, udedup, kvars, wstatus, running>>

\* A request that passes the checks and has a subscriber: the handler builds
\* the QueuedSignal and calls enqueue.
IngressAccept(r, a, req) ==
  /\ epc[r] = "new"
  /\ \A x \in Ids : x < r => epc[x] # "new"
  /\ WebhookStatus(req) = 200
  /\ req.has_subscribers
  /\ ereq' = [ereq EXCEPT ![r] = req]
  /\ esig' = [esig EXCEPT ![r] =
                [action |-> a, priority |-> PriorityOf(a), retry_count |-> 0,
                 max_retries |-> DefaultMaxRetries, created_at |-> NoTime]]
  /\ eafter' = [eafter EXCEPT ![r] = {x \in Ids : epc[x] = "done"}]
  /\ epc' = [epc EXCEPT ![r] = "exists"]
  /\ UNCHANGED <<now, ticks, qvars, estamp, eret, wvars, rvars, recovered, yvars,
                 udedup, kvars, estatus, wstatus, running>>

\* The requests with their checks, and the enqueue of those that pass.
Checked ==
  \E r \in Ids :
    \/ \E req \in Requests : IngressReject(r, req)
    \/ \E req \in Requests : IngressUnsubscribed(r, req)
    \/ \E req \in Requests : \E a \in Actions : IngressAccept(r, a, req)
    \/ EnqExists(r)
    \/ EnqSetex(r)
    \/ EnqSet(r)
    \/ EnqZadd(r)

\* ------------------------------------------------------------- fan-out
\* user_id[:8]
Prefix(user_id) == SubSeq(user_id, 1, Min(PrefixLen, Len(user_id)))

\* user_signal_id = f"{signal_id}-{user_id[:8]}". The request has one uuid, so
\* the text of the id is fixed by the prefix. The model names the id by the
\* position of the first subscription whose user_id gives this text: two
\* subscriptions have one name exactly when their ids are the same text.
UserSignalId(users, i) ==
  CHOOSE j \in 1..Len(users) :
    /\ Prefix(users[j]) = Prefix(users[i])
    /\ \A k \in 1..(j - 1) : Prefix(users[k]) # Prefix(users[i])

\* get_subscribed_users: one subscription per user, so the user ids of the
\* subscriptions of a strategy differ pairwise
Subscriptions ==
  {q \in UNION {[1..n -> UserIds] : n \in 1..MaxSignals} :
     \A i, j \in 1..Len(q) : i # j => q[i] # q[j]}

\* the QueuedSignal built for one subscription (webhooks.py:300-311)
FanoutSignal(a) ==
  [action |-> a, priority |-> PriorityOf(a), retry_count |-> 0,
   max_retries |-> DefaultMaxRetries, created_at |-> NoTime]

\* A request that passes the checks, for a strategy with the subscriptions
\* `users`: the loop starts with the first of them.
FanoutCall(users, a) ==
  /\ fpc = "new"
  /\ fusers' = users
  /\ faction' = a
  /\ fidx' = 1
  /\ fsig' = FanoutSignal(a)
  /\ fpc' = "exists"
  /\ UNCHANGED <<now, ticks, qvars, evars, wvars, rvars, recovered, kvars, hvars,
                 wstatus, running, tvars, sink, risk_row, accepted, fstamp, fqueued, udedup>>

\* enqueue of the iteration: EXISTS dedup:<user_id>:<symbol>:<action>; on a
\* hit the loop counts the signal as skipped and goes on
FanoutExists ==
  /\ fpc = "exists"
  /\ LET m == udedup[fusers[fidx]]
     IN  IF m.value # NoId /\ now < m.expires
         THEN IF fidx < Len(fusers)
              THEN /\ fidx' = fidx + 1
                   /\ fsig' = FanoutSignal(faction)
                   /\ fpc' = "exists"
              ELSE /\ fpc' = "done"
                   /\ UNCHANGED <<fidx, fsig>>
         ELSE /\ fpc' = "setex"
              /\ UNCHANGED <<fidx, fsig>>
  /\ UNCHANGED <<now, ticks, qvars, evars, wvars, rvars, recovered, kvars, hvars,
                 wstatus, running, tvars, sink, risk_row, accepted, fusers, faction, fstamp, fqueued,
                 udedup>>

\* SETEX of the dedup marker, then signal.created_at = utcnow()
FanoutSetex ==
  /\ fpc = "setex"
  /\ udedup' = [udedup EXCEPT ![fusers[fidx]] =
                  [value |-> UserSignalId(fusers, fidx), expires |-> now + DedupTtl]]
  /\ fsig' = [fsig EXCEPT !.created_at = now]
  /\ fpc' = "set"
  /\ UNCHANGED <<now, ticks, qvars, evars, wvars, rvars, recovered, kvars, hvars,
                 wstatus, running, tvars, sink, risk_row, accepted, fusers, faction, fidx, fstamp,
                 fqueued>>

\* SET signal:<user_signal_id>, then timestamp = utcnow().timestamp()
FanoutSet ==
  /\ fpc = "set"
  /\ body' = [body EXCEPT ![UserSignalId(fusers, fidx)] = fsig]
  /\ fstamp' = now
  /\ fpc' = "zadd"
  /\ UNCHANGED <<now, ticks, queue, processing, dead_letter, dedup, evars, wvars,
                 rvars, recovered, kvars, hvars, wstatus, running, tvars, sink, risk_row, accepted,
                 fusers, faction, fidx, fsig, fqueued, udedup>>

\* ZADD signals:queue; enqueue returns True, queued_count += 1, and the loop
\* goes on with the next subscription
FanoutZadd ==
  /\ fpc = "zadd"
  /\ queue' = [queue EXCEPT ![UserSignalId(fusers, fidx)] =
                 Score(fsig.priority, fstamp)]
  /\ fqueued' = fqueued + 1
  /\ IF fidx < Len(fusers)
     THEN /\ fidx' = fidx + 1
          /\ fsig' = FanoutSignal(faction)
          /\ fpc' = "exists"
     ELSE /\ fpc' = "done"
          /\ UNCHANGED <<fidx, fsig>>
  /\ UNCHANGED <<now, ticks, processing, dead_letter, body, dedup, evars, wvars,
                 rvars, recovered, kvars, hvars, wstatus, running, tvars, sink, risk_row, accepted,
                 fusers, faction, fstamp, udedup>>

Fanout ==
  \/ \E users \in Subscriptions : \E a \in AllActions : FanoutCall(users, a)
  \/ FanoutExists
  \/ FanoutSetex
  \/ FanoutSet
  \/ FanoutZadd

\* ------------------------------------------------------- specifications
\* The pipeline as the webhook and run_worker run it: ingress requests and
\* NumWorkers workers. recover_processing has no caller there.
Next ==
  \/ Tick
  \/ Ingress
  \/ Worker

Spec == Init /\ [][Next]_vars

\* The pipeline with recover_processing called at any time while it runs.
NextRecover ==
  \/ Tick
  \/ IngressFew
  \/ Worker
  \/ Recover

SpecRecover == Init /\ [][NextRecover]_vars

\* The pipeline with the execution of each signal spelled out.
NextExec ==
  \/ Tick
  \/ IngressFew
  \/ WorkerExec

SpecExec == Init /\ [][NextExec]_vars

\* The same pipeline on a Redis connection that can fail under complete.
NextRedisError ==
  \/ Tick
  \/ IngressFew
  \/ WorkerExec
  \/ \E w \in Workers : CompleteRaises(w)

SpecRedisError == Init /\ [][NextRedisError]_vars

\* The same with the event loop running every worker task that can take a step
\* (_worker_loop never returns while running is set).
SpecExecFair == SpecExec /\ WF_vars(WorkerExec)

\* The pipeline with the worker process stopped and started again at any time.
NextRestart ==
  \/ Tick
  \/ IngressFew
  \/ Worker
  \/ Stop
  \/ Start

SpecRestart == Init /\ [][NextRestart]_vars

\* The pipeline with requests that the webhook rejects.
NextIngress ==
  \/ Tick
  \/ IngressFew
  \/ Rejects
  \/ Worker

SpecIngress == Init /\ [][NextIngress]_vars

\* The same with the event loop running every task that can take a step, and a
\* stopped worker process started again.
SpecRestartFair ==
  /\ SpecRestart
  /\ WF_vars(IngressFew)
  /\ WF_vars(Worker)
  /\ WF_vars(Start)

\* The pipeline with recover_processing, for a signal of any valid action.
NextAnyAction ==
  \/ Tick
  \/ IngressAnyAction
  \/ Worker
  \/ Recover

SpecAnyAction == Init /\ [][NextAnyAction]_vars

\* The webhook alone: requests that are checked, then rejected or enqueued.
NextChecks ==
  \/ Tick
  \/ Checked

SpecChecks == Init /\ [][NextChecks]_vars

\* One request for a strategy with several subscribers, on an empty Redis.
NextFanout ==
  \/ Tick
  \/ Fanout

SpecFanout == Init /\ [][NextFanout]_vars

\* execute_signal applied to every entry signal, venue and portfolio of the
\* sets above.
InitEntry ==
  /\ InitPipeline
  /\ trade = NoTrade
  /\ portfolio \in EntryPortfolios
  /\ settings = DefaultSettings
  /\ xsignal \in ExecSignals
  /\ venue \in Venues
  /\ risk_row = NoRow

NextEntry == ExecuteEntryCall

SpecEntry == InitEntry /\ [][NextEntry]_vars

\* execute_signal applied to every exit signal, on portfolios that an entry
\* would be turned down on.
InitExit ==
  /\ InitPipeline
  /\ trade = NoTrade
  /\ portfolio \in {DefaultPortfolio, [DefaultPortfolio EXCEPT !.daily_loss_percent = 10]}
  /\ settings = DefaultSettings
  /\ xsignal \in ExitSignals
  /\ venue \in ExitVenues
  /\ risk_row = NoRow

NextExit == ExecuteExitCall

SpecExit == InitExit /\ [][NextExit]_vars

\* check_trade and the entry order, applied to every trade, portfolio and
\* settings of the sets above.
InitRisk ==
  /\ InitPipeline
  /\ xsignal = NoExecSignal
  /\ venue = NoVenue
  /\ trade \in Trades
  /\ portfolio \in Portfolios
  /\ settings \in SettingsChoices
  /\ risk_row = NoRow

NextRisk ==
  \/ CheckTradeCall
  \/ BuildEntryOrder

SpecRisk == InitRisk /\ [][NextRisk]_vars

\* ------------------------------------------------------ the risk settings
\* What the user_risk_settings query of get_user_risk_settings comes back with:
\* no row, an exception, or a row whose columns are NULL or set.
RiskRows ==
  [state : {"row"}, max_position_size_usd : {NoDecimal, 500},
   max_leverage : {NoDecimal, 3}, max_open_positions : {NoDecimal, 2},
   max_daily_trades : {NoDecimal, 20}, max_daily_loss_percent : {NoDecimal, 5},
   max_portfolio_exposure_percent : {NoDecimal, 50},
   default_risk_per_trade_percent : {NoDecimal, 1},
   require_stop_loss : {"null", "false"}]
    \cup {[NoRow EXCEPT !.state = "none"], [NoRow EXCEPT !.state = "error"]}

\* the keyword arguments get_user_risk_settings builds from a row: each column,
\* or the default where the column is NULL (or zero)
RowSettings(row) ==
  [max_position_size_usd |->
     IF Truthy(row.max_position_size_usd) THEN row.max_position_size_usd ELSE 1000,
   max_leverage |-> IF Truthy(row.max_leverage) THEN row.max_leverage ELSE 10,
   max_open_positions |->
     IF Truthy(row.max_open_positions) THEN row.max_open_positions ELSE 5,
   max_daily_trades |->
     IF Truthy(row.max_daily_trades) THEN row.max_daily_trades ELSE 50,
   max_daily_loss_percent |->
     IF Truthy(row.max_daily_loss_percent) THEN row.max_daily_loss_percent ELSE 10,
   max_portfolio_exposure_percent |->
     IF Truthy(row.max_portfolio_exposure_percent)
     THEN row.max_portfolio_exposure_percent ELSE 80,
   risk_per_trade_percent |->
     IF Truthy(row.default_risk_per_trade_percent)
     THEN row.default_risk_per_trade_percent ELSE 2,
   require_stop_loss |-> row.require_stop_loss # "false"]

\* a reading of the row in which the keyword is the field's name
RowSettingsByField(row) ==
  [f \in DOMAIN DefaultSettings |->
     IF f = "default_risk_per_trade_percent"
     THEN RowSettings(row).risk_per_trade_percent ELSE RowSettings(row)[f]]

\* RiskSettings(**kwargs): the dataclass takes its own fields only and raises
\* TypeError for any other keyword
RiskSettingsRaises(kwargs) == ~(DOMAIN kwargs \subseteq DOMAIN DefaultSettings)

\* get_user_risk_settings: no row gives RiskSettings(); a row gives
\* RiskSettings(<keywords>); every exception, of the query or of the
\* constructor, is caught and gives RiskSettings()
GetUserRiskSettings(row) ==
  IF row.state # "row" THEN DefaultSettings
  ELSE IF RiskSettingsRaises(RowSettings(row)) THEN DefaultSettings
  ELSE [f \in DOMAIN DefaultSettings |->
          IF f \in DOMAIN RowSettings(row)
          THEN RowSettings(row)[f] ELSE DefaultSettings[f]]

\* _process_signal: risk_settings = await self.get_user_risk_settings(user_id)
LoadRiskSettings ==
  /\ risk_row.state # "unread"
  /\ settings.max_leverage = NoDecimal
  /\ settings' = GetUserRiskSettings(risk_row)
  /\ UNCHANGED <<now, ticks, qvars, evars, wvars, rvars, recovered, hvars, wstatus,
                 running, yvars, udedup, trade, portfolio, risk_result, order>>

\* The settings a worker runs a signal under, for every outcome of the query.
InitSettings ==
  /\ InitPipeline
  /\ xsignal = NoExecSignal
  /\ venue = NoVenue
  /\ trade = NoTrade
  /\ portfolio = DefaultPortfolio
  /\ settings = [f \in DOMAIN DefaultSettings |-> NoDecimal]
  /\ risk_row \in RiskRows

NextSettings == LoadRiskSettings

SpecSettings == InitSettings /\ [][NextSettings]_vars

\* ----------------------------------------------------------------- claims
\* the ids that have an entry in signals:dead_letter
DeadIds == {dead_letter[i].signal_id : i \in DOMAIN dead_letter}

HasBody(x) == body[x] # NoSignal

\* worker w's dequeue pops an id in this step
Pops(w) == wpc[w] = "idle" /\ wpc'[w] = "deq_get"

\* the score enqueue gave signal x
EnqueueScore(x) == Score(esig[x].priority, estamp[x])

\* x waits in signals:queue at the score enqueue gave it
QueuedFresh(x) == x \in Queued /\ queue[x] = EnqueueScore(x)

\* C1: a signal_id is in at most one of signals:queue, signals:processing and
\* signals:dead_letter, in every state, recover_processing included.
C1_Disjoint ==
  \A x \in Ids :
    /\ ~(x \in Queued /\ x \in processing)
    /\ ~(x \in Queued /\ x \in DeadIds)
    /\ ~(x \in processing /\ x \in DeadIds)

\* C2: once enqueue has returned for a signal, its body key exists if and only
\* if its id is in signals:queue or in signals:processing, in every state
\* (the states between two commands of dequeue, complete and fail included).
C2_BodyIffIndexed ==
  \A x \in Ids :
    epc[x] = "done" => (HasBody(x) <=> (x \in Queued \/ x \in processing))

\* C3: no two workers have the same signal_id in hand (dequeued, and neither
\* complete nor fail called yet) at the same time.
C3_SingleOwner ==
  \A w1, w2 \in Workers :
    (w1 # w2 /\ wpc[w1] = "process" /\ wpc[w2] = "process") => wcur[w1] # wcur[w2]

\* C4, as claimed: whenever dequeue pops a signal, no signal that was enqueued
\* with a lower priority number is left waiting in signals:queue.
C4_PriorityDominance ==
  [][\A w \in Workers : Pops(w) =>
       \A y \in Queued \ {wcur'[w]} :
         ~(esig[y].priority < esig[wcur'[w]].priority)]_vars

\* C4, amended: whenever dequeue pops a signal that waited at the score enqueue
\* gave it, no signal enqueued with a lower priority number is left waiting at
\* the score enqueue gave it, whatever the two timestamps.
C4_FreshPriorityDominance ==
  [][\A w \in Workers : Pops(w) =>
       \A y \in Ids \ {wcur'[w]} :
         (QueuedFresh(wcur'[w]) /\ QueuedFresh(y))
           => ~(esig[y].priority < esig[wcur'[w]].priority)]_vars

\* C4, witness: an exit signal has just been popped at its enqueue score while
\* an entry signal with an earlier timestamp waits at its enqueue score.
C4_Witness ==
  \E w \in Workers : \E y \in Ids :
    /\ wpc[w] = "deq_get"
    /\ wscore[w] = EnqueueScore(wcur[w])
    /\ QueuedFresh(y)
    /\ esig[wcur[w]].priority < esig[y].priority
    /\ estamp[y] < estamp[wcur[w]]

\* C5, as claimed: among signals of equal priority waiting at their enqueue
\* scores the earlier timestamp is popped first, and the scores popped within
\* one priority class never decrease: no pop returns a score below one that
\* another worker popped before it in the same class.
C5_FifoNonDecreasing ==
  [][\A w \in Workers : Pops(w) =>
       /\ \A y \in Ids \ {wcur'[w]} :
            (QueuedFresh(wcur'[w]) /\ QueuedFresh(y)
               /\ esig[y].priority = esig[wcur'[w]].priority)
              => ~(estamp[y] < estamp[wcur'[w]])
       /\ \A v \in Workers \ {w} :
            (wscore[v] # NoScore /\ ScoreClass(wscore[v]) = ScoreClass(wscore'[w]))
              => wscore[v] <= wscore'[w]]_vars

\* C5, amended: among signals of equal priority waiting at their enqueue scores
\* the earlier timestamp is popped first, and every pop returns a lowest score
\* of signals:queue at that moment (so the scores popped do not decrease as
\* long as nothing is added to the queue in between).
C5_FifoLowestFirst ==
  [][\A w \in Workers : Pops(w) =>
       /\ \A y \in Ids \ {wcur'[w]} :
            (QueuedFresh(wcur'[w]) /\ QueuedFresh(y)
               /\ esig[y].priority = esig[wcur'[w]].priority)
              => ~(estamp[y] < estamp[wcur'[w]])
       /\ wscore'[w] = queue[wcur'[w]]
       /\ \A y \in Queued : wscore'[w] <= queue[y]]_vars

\* C5, witness: of two signals of equal priority the one with the earlier
\* timestamp has just been popped and the other waits in the queue.
C5_Witness ==
  \E w \in Workers : \E y \in Ids :
    /\ wpc[w] = "deq_get"
    /\ wscore[w] = EnqueueScore(wcur[w])
    /\ QueuedFresh(y)
    /\ esig[wcur[w]].priority = esig[y].priority
    /\ estamp[wcur[w]] < estamp[y]

\* two requests carry the same dedup key
SameKey(a, b) == DedupKey(esig[a].action) = DedupKey(esig[b].action)

\* request r got past the dedup check and set its marker (at esig[r].created_at)
SetMarker(r) == esig[r].created_at # NoTime

\* signal x is in no structure of the queue and has no body
Nowhere(x) ==
  ~HasBody(x) /\ x \notin Queued /\ x \notin processing /\ x \notin DeadIds

\* C6: of two enqueue calls with the same dedup key made one after the other,
\* the first having returned true, the second is accepted only once the TTL of
\* the first has run out; a call that returns false has added nothing; and a
\* call returns false only while a marker set by another call with that key is
\* within its TTL (so the first call, and a call after the TTL, are accepted).
C6_DedupWindow ==
  /\ [](\A a, b \in Ids :
          (a # b /\ a \in eafter[b] /\ SameKey(a, b) /\ eret[a] = "true" /\ SetMarker(b))
            => esig[b].created_at >= esig[a].created_at + DedupTtl)
  /\ [](\A b \in Ids : eret[b] = "false" => Nowhere(b))
  /\ [][\A b \in Ids :
          (eret[b] = "none" /\ eret'[b] = "false")
            => \E a \in Ids \ {b} :
                 /\ SameKey(a, b)
                 /\ SetMarker(a)
                 /\ now < esig[a].created_at + DedupTtl]_vars

\* C6, witness: a second call, made after the first returned true and some
\* time later but within the TTL, returned false, and the first signal is the
\* only one of the two with a body.
C6_Witness ==
  \E a, b \in Ids :
    /\ a \in eafter[b]
    /\ SameKey(a, b)
    /\ eret[a] = "true"
    /\ eret[b] = "false"
    /\ now > esig[a].created_at
    /\ now < esig[a].created_at + DedupTtl
    /\ HasBody(a)

\* C7: no two enqueue calls with the same dedup key both return true with
\* their markers set less than one TTL apart.
C7_DedupConcurrent ==
  \A a, b \in Ids :
    (a # b /\ SameKey(a, b) /\ eret[a] = "true" /\ eret[b] = "true")
      => \/ esig[b].created_at >= esig[a].created_at + DedupTtl
         \/ esig[a].created_at >= esig[b].created_at + DedupTtl

\* C8: when fail is called with retry=true and finds retry_count = k-1 below
\* max_retries it takes the retry branch (the one that returns True) with
\* retry_count = k; that branch writes the body with retry_count = k and
\* nothing else changed, and ends with the id in signals:queue at score
\* LOW * scale + (now + min(2^k, 60)), now being the clock read after the body
\* was written, the id out of signals:processing and the body in place.
C8_RetryBackoff ==
  [][\A w \in Workers :
       /\ (wpc[w] = "fail_get" /\ wpc'[w] # "fail_get" /\ wretry[w]
             /\ HasBody(wcur[w])
             /\ body[wcur[w]].retry_count < body[wcur[w]].max_retries)
            => /\ wpc'[w] = "fail_set"
               /\ wsig'[w] = [body[wcur[w]] EXCEPT
                                !.retry_count = body[wcur[w]].retry_count + 1]
       /\ (wpc[w] = "fail_set" /\ wpc'[w] # "fail_set")
            => /\ body'[wcur[w]] = wsig[w]
               /\ wstamp'[w] = now
       /\ (wpc[w] = "fail_zadd" /\ wpc'[w] # "fail_zadd")
            => /\ wsig[w].retry_count >= 1
               /\ queue'[wcur[w]] =
                    LOW * ScoreScale
                      + (wstamp[w] + Min(Pow2(wsig[w].retry_count), BackoffCap))
               /\ wcur[w] \notin processing'
               /\ body'[wcur[w]] = wsig[w]
               /\ wpc'[w] = "idle"]_vars

\* C8, witness: a signal failed for the third time waits in signals:queue in
\* the LOW class, 8 seconds after the clock, with retry_count 3 in its body.
C8_Witness ==
  \E x \in Ids :
    /\ x \in Queued
    /\ x \notin processing
    /\ HasBody(x)
    /\ body[x].retry_count = 3
    /\ queue[x] = LOW * ScoreScale + now + 8

\* C9: a failure reported with retry=true dead-letters the signal exactly when
\* its retry_count has reached max_retries, and re-queues it otherwise; a
\* signal re-queued for the k-th time waits in the LOW class 2^k seconds (2, 4,
\* 8) after the clock read of that failure; an entry of signals:dead_letter made
\* by such a failure carries retry_count = max_retries = 3 and the error; and
\* a dead-lettered signal is in neither signals:queue nor signals:processing,
\* is in no worker's hand but that of the fail call that is deleting its body,
\* and has no body once that call has returned: it is never delivered again.
C9_RetryThenDeadLetter ==
  /\ [][\A w \in Workers :
          (wpc[w] = "fail_get" /\ wpc'[w] # "fail_get" /\ wretry[w] /\ HasBody(wcur[w]))
            => (wpc'[w] = "fail_lpush"
                  <=> body[wcur[w]].retry_count = DefaultMaxRetries)]_vars
  /\ [](\A x \in Queued :
          (HasBody(x) /\ body[x].retry_count >= 1)
            => /\ body[x].retry_count <= DefaultMaxRetries
               /\ ScoreClass(queue[x]) = LOW
               /\ ScoreTime(queue[x]) - Pow2(body[x].retry_count) \in 0..now)
  /\ [](\A i \in DOMAIN dead_letter :
          dead_letter[i].error = "error"
            => /\ dead_letter[i].signal.retry_count = DefaultMaxRetries
               /\ dead_letter[i].signal.max_retries = DefaultMaxRetries)
  /\ [](\A x \in DeadIds :
          /\ x \notin Queued
          /\ x \notin processing
          /\ \A w \in Workers : wcur[w] = x => wpc[w] = "fail_del"
          /\ HasBody(x) => \E w \in Workers : wcur[w] = x /\ wpc[w] = "fail_del")
  /\ [][\A i \in DOMAIN dead_letter :
          /\ Len(dead_letter') >= Len(dead_letter)
          /\ dead_letter'[i + Len(dead_letter') - Len(dead_letter)] = dead_letter[i]]_vars

\* C9, witness: a signal that failed with retry=true four times lies in
\* signals:dead_letter with retry_count 3, its body deleted.
C9_Witness ==
  \E i \in DOMAIN dead_letter :
    /\ dead_letter[i].error = "error"
    /\ dead_letter[i].signal.retry_count = 3
    /\ ~HasBody(dead_letter[i].signal_id)
    /\ \A w \in Workers : wcur[w] # dead_letter[i].signal_id

\* the action of the signal is an exit, resp. an entry
IsExit(x) == esig[x].action = "long_exit"

IsEntry(x) == esig[x].action = "long_entry"

RiskRejected == risk_result # NoResult /\ ~risk_result.passed

\* the limits of checks 1 to 4 are all respected by the trade and the portfolio
WithinFirstFourLimits ==
  /\ portfolio.daily_loss_percent < settings.max_daily_loss_percent
  /\ portfolio.daily_trades_count < settings.max_daily_trades
  /\ portfolio.open_positions_count < settings.max_open_positions
  /\ trade.leverage <= settings.max_leverage

\* the trade is worth more than max_position_size_usd
Oversized == trade.quantity * trade.entry_price > settings.max_position_size_usd

\* C18: a rejection of check_trade carries the reason of the first rule that
\* fails in the order daily loss, daily trade count, open positions, leverage,
\* (size adjustment, which accepts), portfolio exposure, stop loss required,
\* with no adjusted quantity and no warning, whatever the later rules would say.
C18_FirstFailingRule ==
  RiskRejected =>
    /\ risk_result.adjusted_quantity = NoDecimal
    /\ risk_result.warnings = <<>>
    /\ risk_result.reason =
         IF portfolio.daily_loss_percent >= settings.max_daily_loss_percent
           THEN "Daily loss limit reached"
         ELSE IF portfolio.daily_trades_count >= settings.max_daily_trades
           THEN "Daily trade limit reached"
         ELSE IF portfolio.open_positions_count >= settings.max_open_positions
           THEN "Max open positions reached"
         ELSE IF trade.leverage > settings.max_leverage
           THEN "Leverage exceeds maximum"
         ELSE IF (portfolio.total_balance_usd <= 0
                    /\ settings.max_portfolio_exposure_percent < 100)
                 \/ (portfolio.total_balance_usd > 0
                      /\ (portfolio.open_positions_value_usd
                            + trade.quantity * trade.entry_price) * 100
                           > settings.max_portfolio_exposure_percent
                               * portfolio.total_balance_usd)
           THEN "Portfolio exposure exceeds maximum"
         ELSE "Stop loss is required but not provided"
    /\ (WithinFirstFourLimits => ~Oversized)
    /\ risk_result.reason = "Stop loss is required but not provided"
         => (settings.require_stop_loss /\ trade.stop_loss = NoDecimal)

\* C18, witness: a trade rejected for the daily trade count although its
\* leverage, the exposure and the missing stop loss would each reject it too.
C18_Witness ==
  /\ RiskRejected
  /\ risk_result.reason = "Daily trade limit reached"
  /\ portfolio.daily_trades_count = settings.max_daily_trades
  /\ portfolio.open_positions_count >= settings.max_open_positions
  /\ trade.leverage > settings.max_leverage
  /\ portfolio.total_balance_usd = 0
  /\ settings.require_stop_loss
  /\ trade.stop_loss = NoDecimal

\* C19: when checks 1 to 4 pass and the trade is worth more than
\* max_position_size_usd, check_trade accepts with a warning and
\* adjusted_quantity = max_position_size_usd / entry_price, whatever the
\* exposure and the stop loss, and the entry order carries the adjusted quantity.
C19_SizeAdjustmentAccepts ==
  (risk_result # NoResult /\ WithinFirstFourLimits /\ Oversized) =>
    /\ risk_result.passed
    /\ risk_result.adjusted_quantity * trade.entry_price = settings.max_position_size_usd
    /\ Len(risk_result.warnings) = 1
    /\ order # NoDecimal => order * trade.entry_price = settings.max_position_size_usd

\* C19, witness: an oversized trade without the required stop loss, which even
\* at the adjusted quantity takes the exposure above the limit, has been
\* accepted and its order built with the adjusted quantity.
C19_Witness ==
  /\ risk_result # NoResult
  /\ WithinFirstFourLimits
  /\ Oversized
  /\ settings.require_stop_loss
  /\ trade.stop_loss = NoDecimal
  /\ portfolio.total_balance_usd > 0
  /\ order # NoDecimal
  /\ order < trade.quantity
  /\ (portfolio.open_positions_value_usd + order * trade.entry_price) * 100
       > settings.max_portfolio_exposure_percent * portfolio.total_balance_usd

\* the positions of a worker inside complete, and inside fail
CompleteSteps == {"complete_srem", "complete_del"}

FailSteps == {"fail_srem", "fail_get", "fail_set", "fail_zadd", "fail_lpush", "fail_del"}

\* the branch of fail that re-queues the signal
RetrySteps == {"fail_set", "fail_zadd"}

\* C11: a worker leaves _process_signal's execution into complete when the
\* result is FILLED or PARTIALLY_FILLED, into fail(retry=false) when it is
\* RISK_CHECK_FAILED, and into fail(retry=true) for every other status and for
\* an exception; it goes through that one operation only and is back in the
\* loop after it, the id then being out of signals:processing.
C11_OutcomeMapping ==
  /\ [][\A w \in Workers :
          (wpc[w] = "process" /\ wpc'[w] # "process") =>
            /\ wstatus'[w] \in {"filled", "partially_filled"}
                 => wpc'[w] = "complete_srem"
            /\ wstatus'[w] = "risk_check_failed"
                 => (wpc'[w] = "fail_srem" /\ ~wretry'[w])
            /\ wstatus'[w] \notin {"filled", "partially_filled", "risk_check_failed"}
                 => (wpc'[w] = "fail_srem" /\ wretry'[w])]_vars
  /\ [][\A w \in Workers :
          /\ wpc[w] \in CompleteSteps => wpc'[w] \in CompleteSteps \cup {"idle"}
          /\ wpc[w] \in FailSteps => wpc'[w] \in FailSteps \cup {"idle"}
          /\ (wpc[w] \in CompleteSteps \cup FailSteps /\ wpc'[w] = "idle")
               => wcur[w] \notin processing']_vars

\* C11, witness: a worker whose execution ended PARTIALLY_FILLED is inside
\* complete, the id already out of signals:processing.
C11_Witness ==
  \E w \in Workers :
    /\ wpc[w] = "complete_del"
    /\ wstatus[w] = "partially_filled"
    /\ wcur[w] \notin processing

\* C12: an entry signal executed on a portfolio whose daily loss equals the
\* limit (10 of 10) ends RISK_CHECK_FAILED with no order placed; a worker that
\* got RISK_CHECK_FAILED calls fail with retry=false and takes the dead-letter
\* branch; and an id in signals:dead_letter is never in signals:queue or
\* signals:processing, keeps its entry, and has lost its body once fail returned.
C12_RiskRejectionTerminal ==
  /\ [](\A t \in Trades : \A place \in PlaceOutcomes :
          LET result == ExecuteEntry(t, [DefaultPortfolio EXCEPT !.daily_loss_percent = 10],
                                     DefaultSettings, place)
          IN  result.status = "risk_check_failed" /\ ~result.placed)
  /\ [](\A w \in Workers :
          (wstatus[w] = "risk_check_failed" /\ wpc[w] \in FailSteps)
            => (~wretry[w] /\ wpc[w] \notin RetrySteps))
  /\ [][\A w \in Workers :
          (wpc[w] = "fail_get" /\ wpc'[w] # "fail_get" /\ ~wretry[w])
            => wpc'[w] = "fail_lpush"]_vars
  /\ [](\A x \in DeadIds :
          /\ x \notin Queued
          /\ x \notin processing
          /\ HasBody(x) => \E w \in Workers : wcur[w] = x /\ wpc[w] = "fail_del")
  /\ [][DeadIds \subseteq DeadIds']_vars

\* C12, witness: a signal rejected for the daily loss limit on its first
\* delivery lies in signals:dead_letter, its body deleted.
C12_Witness ==
  \E i \in DOMAIN dead_letter :
    /\ dead_letter[i].error = "Daily loss limit reached"
    /\ dead_letter[i].signal.retry_count = 0
    /\ ~HasBody(dead_letter[i].signal_id)
    /\ \A w \in Workers : wcur[w] # dead_letter[i].signal_id

\* C13: a worker that got no exchange adapter fails the signal with
\* retry=false and never takes the branch of fail that re-queues it.
C13_NoAdapterNoRetry ==
  \A w \in Workers :
    werr[w] = "No exchange configured for user/strategy"
      => (~wretry[w] /\ wpc[w] \notin RetrySteps)

\* C14: a worker whose exit signal found no position of its side fails the
\* signal with retry=false and never takes the branch of fail that re-queues it.
C14_NoPositionNoRetry ==
  \A w \in Workers :
    werr[w] \in {"No open position for BTCUSDT", NoSidePosition("long"),
                  NoSidePosition("short")}
      => (~wretry[w] /\ wpc[w] \notin RetrySteps)

\* C15: a worker whose place_order raised InsufficientFundsError or
\* InvalidOrderError fails the signal with retry=false and never takes the
\* branch of fail that re-queues it.
C15_PermanentErrorNoRetry ==
  \A w \in Workers :
    werr[w] \in {"Insufficient funds", "InvalidOrderError"}
      => (~wretry[w] /\ wpc[w] \notin RetrySteps)

\* C16: recover_processing(300) takes each id of its SMEMBERS reply once; if the
\* body is missing it removes the id from signals:processing and nothing else;
\* if the body is there and was created more than 300 seconds ago it writes the
\* body back with retry_count one higher, inserts the id in signals:queue at
\* HIGH * scale + the clock read after that write, removes it from
\* signals:processing and counts it; otherwise it does nothing for the id; the
\* count it returns starts at 0 and moves only with such a re-queue.
C16_OrphanRecovery ==
  /\ [][(rpc = "get" /\ rtodo' # rtodo) =>
          LET x == CHOOSE y \in rtodo \ rtodo' : TRUE
          IN  /\ rtodo' = rtodo \ {x}
              /\ UNCHANGED <<queue, processing, body, recovered>>
              /\ ~HasBody(x) => (rpc' = "srem_missing" /\ rcur' = x)
              /\ (HasBody(x) /\ now - body[x].created_at > RecoverMaxAge)
                   => /\ rpc' = "set"
                      /\ rcur' = x
                      /\ rsig' = [body[x] EXCEPT !.retry_count = body[x].retry_count + 1]
              /\ (HasBody(x) /\ now - body[x].created_at <= RecoverMaxAge)
                   => (rpc' \in {"get", "idle"} /\ rcur' = NoId)]_vars
  /\ [][(rpc = "srem_missing" /\ rpc' # "srem_missing")
          => /\ processing' = processing \ {rcur}
             /\ UNCHANGED <<queue, body, recovered>>]_vars
  /\ [][(rpc = "set" /\ rpc' # "set")
          => /\ body' = [body EXCEPT ![rcur] = rsig]
             /\ rstamp' = now
             /\ rpc' = "zadd"]_vars
  /\ [][(rpc = "zadd" /\ rpc' # "zadd")
          => /\ queue' = [queue EXCEPT ![rcur] = HIGH * ScoreScale + rstamp]
             /\ rpc' = "srem"]_vars
  /\ [][(rpc = "srem" /\ rpc' # "srem")
          => /\ processing' = processing \ {rcur}
             /\ recovered' = recovered + 1]_vars
  /\ [][recovered' # recovered
          => \/ rpc = "srem"
             \/ rpc = "idle" /\ rpc' = "get" /\ recovered' = 0]_vars

\* C16, witness: recover_processing has returned 1 after re-queuing, at HIGH
\* priority and the current time, an entry signal created 301 seconds before,
\* whose body now has retry_count 1.
C16_Witness ==
  \E x \in Ids :
    /\ rpc = "idle"
    /\ recovered = 1
    /\ x \notin processing
    /\ queue[x] = HIGH * ScoreScale + now
    /\ HasBody(x)
    /\ body[x].priority = NORMAL
    /\ body[x].retry_count = 1
    /\ now - body[x].created_at = 301

\* C17: a signal that is in signals:processing while the worker process is
\* stopped (it was in flight when stop cancelled the workers) is eventually
\* delivered to a worker again.
C17_AbandonedRedelivered ==
  \A x \in Ids :
    (x \in processing /\ ~running)
      ~> (\E w \in Workers : wcur[w] = x /\ wpc[w] = "process")

\* C20: a request whose secret is shorter than 16 characters is answered with
\* 401, whatever its strategy_id names, and puts nothing in the queue.
C20_ShortSecret401 ==
  \A r \in Ids :
    (ereq[r] # NoRequest /\ ereq[r].schema_ok /\ ereq[r].secret_len < 16)
      => (estatus[r] = 401 /\ Nowhere(r))

\* ------------------------------------------------------------------ C21
\* the signal ids the loop has given to the subscriptions
FanoutIds == {UserSignalId(fusers, i) : i \in 1..Len(fusers)}

\* C21: a request fanned out to N subscribers with pairwise different user
\* ids, none of them deduplicated, leaves N pairwise distinct signal ids,
\* N bodies and N entries of signals:queue.
C21_FanoutIdentity ==
  (/\ fpc = "done"
   /\ \A i, j \in 1..Len(fusers) : i # j => fusers[i] # fusers[j]
   /\ fqueued = Len(fusers))
  => /\ Cardinality(FanoutIds) = Len(fusers)
     /\ Cardinality({x \in Ids : HasBody(x)}) = Len(fusers)
     /\ Cardinality(Queued) = Len(fusers)

\* ------------------------------------------------------------------ C22
\* the statuses of a rejected request
ClientErrors == {400, 401, 404, 422}

\* a request one of the checks of the webhook turns down
TurnedDown(req) ==
  \/ ~req.schema_ok
  \/ req.strategy # "active"
  \/ req.secret_len < 16
  \/ ~req.secret_valid
  \/ (req.has_subscribers /\ ~req.decimals_ok)

\* C22: a request that is rejected (422 for a payload that does not fit the
\* schema, 401 for a short or wrong secret, 404 for an unknown strategy, 400
\* for an inactive strategy or a price that is no decimal) is answered with
\* that status, and its rejection leaves signals:queue, every body and every
\* dedup marker as they were; nothing of it is ever queued.
C22_RejectedUntouched ==
  /\ [](\A r \in Ids :
          (ereq[r] # NoRequest /\ TurnedDown(ereq[r]))
            => /\ estatus[r] \in ClientErrors
               /\ eret[r] = "none"
               /\ Nowhere(r)
               /\ \A k \in AllActions : dedup[k].value # r)
  /\ [][\A r \in Ids :
          (estatus[r] = NoDecimal /\ estatus'[r] \in ClientErrors)
            => UNCHANGED <<queue, processing, dead_letter, body, dedup>>]_vars

\* a signal is queued, its marker is set, and the request that came after its
\* own, with a price that is no decimal, has been answered 400
C22_Witness ==
  \E a, b \in Ids :
    /\ a < b
    /\ a \in Queued
    /\ HasBody(a)
    /\ \E k \in AllActions : dedup[k].value = a
    /\ ereq[b] # NoRequest
    /\ ereq[b].strategy = "active"
    /\ ~ereq[b].decimals_ok
    /\ estatus[b] = 400

\* ------------------------------------------------------------------ C23
\* the priority the action of a signal calls for
ActionPriority(signal) ==
  IF signal.action \in {"long_exit", "short_exit"} THEN HIGH ELSE NORMAL

\* C23: the body of every enqueued signal carries priority HIGH for long_exit
\* and short_exit and NORMAL for long_entry and short_entry, and keeps that
\* value through dequeue, the retry of fail, recover_processing and the move
\* to the dead letter list, in the body in Redis and in the copy a worker or
\* recover_processing holds.
C23_PriorityByAction ==
  /\ \A x \in Ids : HasBody(x) => body[x].priority = ActionPriority(body[x])
  /\ \A w \in Workers : wsig[w] # NoSignal => wsig[w].priority = ActionPriority(wsig[w])
  /\ rsig # NoSignal => rsig.priority = ActionPriority(rsig)

\* a short_exit that has failed and been re-queued: its score is of class LOW,
\* its body still says HIGH
C23_Witness ==
  \E x \in Queued :
    /\ HasBody(x)
    /\ body[x].action = "short_exit"
    /\ body[x].retry_count >= 1
    /\ body[x].priority = HIGH
    /\ ScoreClass(queue[x]) = LOW

\* ------------------------------------------------------------------ C24
\* the types of the messages handed to the sink so far
Published == {sink[i].type : i \in 1..Len(sink)}

\* C24: a worker whose execution ended FILLED or PARTIALLY_FILLED and that has
\* completed the signal has published trade_executed and position_update for
\* its user.
C24_FilledPublishes ==
  \A w \in Workers :
    (wstatus[w] \in {"filled", "partially_filled"} /\ wpc[w] = "idle")
      => {"trade_executed", "position_update"} \subseteq Published

\* ------------------------------------------------------------------ C25
\* the marker of the dedup key of request r is set and within its TTL
MarkerLive(r) ==
  LET m == dedup[DedupKey(esig[r].action)]
  IN  m.value # NoId /\ now < m.expires

\* C25: an enqueue whose dedup check finds the marker returns false, and its
\* step leaves signals:queue, signals:processing, signals:dead_letter, every
\* body and every dedup marker, value and expiry, as they were.
C25_DedupHitNoOp ==
  [][\A r \in Ids :
       (epc[r] = "exists" /\ epc'[r] # "exists" /\ MarkerLive(r))
         => /\ eret'[r] = "false"
            /\ epc'[r] = "done"
            /\ UNCHANGED <<queue, processing, dead_letter, body, dedup>>]_vars

\* a request has been turned away by the marker of another, which is still
\* set and whose signal is queued
C25_Witness ==
  \E a, b \in Ids :
    /\ a # b
    /\ eret[b] = "false"
    /\ a \in Queued
    /\ HasBody(a)
    /\ dedup[DedupKey(esig[b].action)].value = a

\* ------------------------------------------------------------------ C26
\* C26: whenever an id is in signals:queue its body exists, however enqueue,
\* fail, complete and recover_processing interleave with the dequeues of the
\* workers.
C26_IndexImpliesBody == \A x \in Queued : HasBody(x)

\* ------------------------------------------------------------------ C27
\* the positions in `orders` of the reduce-only orders
Protective == {i \in 1..Len(orders) : orders[i].reduce_only}

\* the side that closes a position of the signal's direction
ClosingSide == IF xsignal.action = "long_entry" THEN "SELL" ELSE "BUY"

\* the order is the stop loss of the signal, the take profit of the signal
IsStopLoss(o) ==
  o.type = "STOP_MARKET" /\ o.stop_price = xsignal.stop_loss /\ o.stop_price > 0

IsTakeProfit(o) ==
  o.type = "LIMIT" /\ o.price = xsignal.take_profit /\ o.price > 0

\* C27: stop-loss and take-profit orders are handed to the venue only after
\* the entry order came back FILLED; each is reduce-only, on the side opposite
\* to the entry, a STOP_MARKET at the signal's stop_loss or a LIMIT at its
\* take_profit; and whether their placement succeeds or raises, the
\* ExecutionResult has the status mapped from the entry order.
C27_ProtectiveAfterFill ==
  xresult # NoExecution =>
    /\ Protective # {} =>
         /\ venue.place = "FILLED"
         /\ ~orders[1].reduce_only
         /\ orders[1].type = "MARKET"
         /\ orders[1].side # ClosingSide
    /\ \A i \in Protective :
         /\ i > 1
         /\ orders[i].side = ClosingSide
         /\ orders[i].quantity = orders[1].quantity
         /\ IsStopLoss(orders[i]) \/ IsTakeProfit(orders[i])
    /\ \A i, j \in Protective : i # j => orders[i].type # orders[j].type
    /\ (orders # <<>> /\ venue.place \in OrderStatuses)
         => xresult.status = MapOrderStatus(venue.place)
    /\ (orders # <<>> /\ venue.place = "FILLED")
         => /\ xsignal.stop_loss > 0 => \E i \in Protective : IsStopLoss(orders[i])
            /\ xsignal.take_profit > 0 => \E i \in Protective : IsTakeProfit(orders[i])

\* a filled short entry whose stop loss the venue refused: the take profit was
\* placed all the same and the result is FILLED
C27_Witness ==
  /\ xresult.status = "filled"
  /\ xsignal.action = "short_entry"
  /\ venue.stop_place = "ExchangeError"
  /\ venue.take_place = "OPEN"
  /\ Len(orders) = 3
  /\ IsStopLoss(orders[2])
  /\ IsTakeProfit(orders[3])
  /\ orders[2].side = "BUY"

\* ------------------------------------------------------------------ C28
\* C28: the status of the result of a placed entry order is FILLED for FILLED,
\* PARTIALLY_FILLED for PARTIALLY_FILLED, EXECUTING for OPEN, PENDING for
\* PENDING and FAILED for every other order status.
C28_StatusMapping ==
  (xresult # NoExecution /\ orders # <<>> /\ venue.place \in OrderStatuses)
    => xresult.status =
         CASE venue.place = "FILLED" -> "filled"
           [] venue.place = "PARTIALLY_FILLED" -> "partially_filled"
           [] venue.place = "OPEN" -> "executing"
           [] venue.place = "PENDING" -> "pending"
           [] OTHER -> "failed"

\* ------------------------------------------------------------------ C29
\* C29: an entry signal without quantity whose stop_loss equals the entry
\* price is sized zero and rejected: no order is handed to the venue.
C29_ZeroStopDistanceRejected ==
  (/\ xresult # NoExecution
   /\ xsignal.quantity = NoDecimal
   /\ xsignal.stop_loss = EntryPrice(xsignal, venue))
  => /\ orders = <<>>
     /\ xresult.status \in {"risk_check_failed", "failed"}

\* ------------------------------------------------------------------ C30
\* the step is the SET of the body of x by the retry branch of fail or by
\* recover_processing
Rewrites(x) ==
  \/ \E w \in Workers : wpc[w] = "fail_set" /\ wcur[w] = x /\ wpc'[w] = "fail_zadd"
  \/ rpc = "set" /\ rcur = x /\ rpc' = "zadd"

\* C30: once enqueued a body changes only in retry_count: the rewrite of the
\* retry branch of fail and of recover_processing leaves every other field as
\* it is and raises retry_count by one, and no other step changes a body it
\* does not delete.
C30_BodyImmutable ==
  [][\A x \in Ids :
       HasBody(x) =>
         IF Rewrites(x)
         THEN body'[x] = [body[x] EXCEPT !.retry_count = body[x].retry_count + 1]
         ELSE body'[x] \in {body[x], NoSignal}]_vars

\* the same for every field but retry_count
C30_OtherFieldsKept ==
  [][\A x \in Ids :
       (HasBody(x) /\ body'[x] # NoSignal)
         => [body'[x] EXCEPT !.retry_count = 0] = [body[x] EXCEPT !.retry_count = 0]]_vars

\* ------------------------------------------------------------------ C31
\* C31: for an entry signal place_order is called only when check_trade has
\* passed the trade; when check_trade rejects, the result is RISK_CHECK_FAILED
\* with the reason as error and no order, entry, stop-loss or take-profit, is
\* handed to the adapter.
C31_NoOrderWithoutRiskCheck ==
  xresult # NoExecution =>
    /\ orders # <<>> => (risk_result # NoResult /\ risk_result.passed)
    /\ ~risk_result.passed =>
         /\ orders = <<>>
         /\ ~xresult.placed
         /\ xresult.status = "risk_check_failed"
         /\ xresult.error = risk_result.reason

\* an entry at 11x leverage with stop loss and take profit, on a venue that
\* would have filled it, was rejected and nothing was placed
C31_Witness ==
  /\ xresult.status = "risk_check_failed"
  /\ xresult.error = "Leverage exceeds maximum"
  /\ xsignal.leverage = 11
  /\ xsignal.stop_loss = 95
  /\ xsignal.take_profit = 110
  /\ venue.place = "FILLED"
  /\ orders = <<>>

\* C32: when a user_risk_settings row exists for the user, the settings the
\* worker checks the trade against are the row's values (the default standing
\* in for a NULL column); the defaults 1000, 10, 5, 50, 10, 80, 2, true are
\* used only when there is no row or the query fails.
C32_RowSettingsApplied ==
  settings.max_leverage # NoDecimal =>
    /\ risk_row.state = "row" => settings = RowSettingsByField(risk_row)
    /\ risk_row.state \in {"none", "error"} => settings = DefaultSettings

C32_RowIgnored ==
  /\ risk_row.state = "row"
  /\ risk_row.max_leverage = 3
  /\ risk_row.max_position_size_usd = 500
  /\ risk_row.require_stop_loss = "false"
  /\ settings = DefaultSettings

\* C33: with the workers running under weak fairness, no crash and no Redis
\* error, every signal enqueue accepted is eventually completed (its body
\* deleted, the id in no structure) or in signals:dead_letter.
C33_EventuallyTerminal ==
  \A x \in Ids : (eret[x] = "true") ~> (Nowhere(x) \/ x \in DeadIds)

\* C33, witness: an accepted signal whose first order stayed open was failed,
\* delivered again after the retry and completed.
C33_Witness ==
  \E x \in Ids :
    /\ eret[x] = "true" /\ Nowhere(x) /\ accepted[x] = 2
    /\ \A w \in Workers : wpc[w] = "idle"

\* C34: once the workers have been cancelled, wherever inside dequeue or
\* _process_signal each was, every signal enqueue has returned for and whose
\* body exists is in signals:queue or in signals:processing, where a later
\* dequeue or recover_processing finds it.
C34_NoneStranded ==
  ~running =>
    \A x \in Ids :
      (epc[x] = "done" /\ HasBody(x)) => (x \in Queued \/ x \in processing)

\* C35: the retry_count of every stored body and of every dead-letter entry
\* lies between 0 and the signal's max_retries, whatever fail and
\* recover_processing have done to it.
C35_RetryCountBounded ==
  /\ \A x \in Ids :
       HasBody(x) => (0 <= body[x].retry_count /\ body[x].retry_count <= body[x].max_retries)
  /\ \A i \in DOMAIN dead_letter :
       /\ 0 <= dead_letter[i].signal.retry_count
       /\ dead_letter[i].signal.retry_count <= dead_letter[i].signal.max_retries

\* C36: a signal_id has at most one entry in signals:dead_letter, and an
\* entry, once pushed, is never removed or rewritten, whatever the interleaving
\* of fail, complete and recover_processing; each entry holds the body as it
\* was stored, the error of the call and the time of the push as failed_at.
C36_DeadLetterOnce ==
  /\ [](\A i, j \in DOMAIN dead_letter :
          dead_letter[i].signal_id = dead_letter[j].signal_id => i = j)
  /\ [][/\ Len(dead_letter') >= Len(dead_letter)
         /\ \A i \in DOMAIN dead_letter :
              dead_letter'[i + Len(dead_letter') - Len(dead_letter)] = dead_letter[i]]_vars
  /\ [][\A w \in Workers :
          (wpc[w] = "fail_lpush" /\ wpc'[w] = "fail_del") =>
            /\ Len(dead_letter') = Len(dead_letter) + 1
            /\ dead_letter'[1].signal_id = wcur[w]
            /\ dead_letter'[1].signal = wsig[w]
            /\ dead_letter'[1].error = werr[w]
            /\ dead_letter'[1].failed_at = now]_vars

\* C37: an exit signal never goes through check_trade and never ends
\* RISK_CHECK_FAILED, whatever the portfolio; the one order it places is a
\* reduce-only MARKET order on the side opposite to the position it closes
\* (SELL for a long exit, BUY for a short exit).
C37_ExitBypassesRisk ==
  (xresult # NoExecution /\ ~IsEntryAction(xsignal.action)) =>
    /\ risk_result = NoResult
    /\ xresult.status # "risk_check_failed"
    /\ Len(orders) <= 1
    /\ xresult.placed <=> Len(orders) = 1
    /\ \A i \in DOMAIN orders :
         /\ orders[i].reduce_only
         /\ orders[i].type = "MARKET"
         /\ orders[i].side = IF xsignal.action = "long_exit" THEN "SELL" ELSE "BUY"

\* C37, witness: a short exit, on a portfolio at its daily loss limit and with
\* a leverage no entry would pass, has closed the short position with a filled
\* reduce-only market BUY for the position's quantity.
C37_Witness ==
  /\ xsignal.action = "short_exit" /\ xsignal.leverage = 11
  /\ portfolio.daily_loss_percent = 10
  /\ xresult.status = "filled"
  /\ Len(orders) = 1 /\ orders[1].side = "BUY" /\ orders[1].quantity = 4
  /\ orders[1].reduce_only

\* C38: a signal whose execution ended FILLED or PARTIALLY_FILLED is never put
\* back in signals:queue by the worker that executed it, also when a Redis
\* command inside queue.complete raises: that worker never runs the ZADD of
\* fail's retry branch for it.
C38_FilledNeverRequeued ==
  [][\A w \in Workers :
       (wpc[w] = "fail_zadd" /\ wpc'[w] = "idle") =>
         wstatus[w] \notin {"filled", "partially_filled"}]_vars

\* C39: with no crash and no recover_processing, over all the deliveries and
\* retries of a signal_id, place_order of the entry returns an OrderResult the
\* venue took the order with (FILLED, PARTIALLY_FILLED, OPEN or PENDING) at
\* most once.
C39_OneEntryOrder == \A x \in Ids : accepted[x] <= 1

\* C40: a signal fail(retry=true) re-queued at time t with delay d (its score
\* is LOW * 1e12 + t + d) is not returned by a dequeue before t + d, also when
\* signals:queue holds no other signal.
C40_BackoffDelaysDelivery ==
  [][\A w \in Workers : \A x \in Ids :
       (Pops(w) /\ wcur'[w] = x /\ ScoreClass(queue[x]) = LOW) =>
         now >= ScoreTime(queue[x])]_vars

====
